---- MODULE Spec2Model ----
(***************************************************************************)
(* Blumenboss bookkeeping application (src/App.tsx): the ledger store     *)
(* (transactions, debts), the entry forms, the delete / settle dialogs,   *)
(* the accountant (restricted) mode, CSV import and persistence to        *)
(* localStorage, modelled as a state machine with one action per handler. *)
(*                                                                         *)
(* Text is modelled as a sequence of symbols.  A symbol is one character  *)
(* (" ", ",", "-", ".", a digit, a quote, a line break) or an opaque word *)
(* of letters ("a", "INCOME", "description").  Arabic-Indic digits are    *)
(* written by code point ("U+0665").  Amounts are numbers in hundredths   *)
(* (parseFloat("2.5") is 250).                                             *)
(***************************************************************************)
EXTENDS Integers, Sequences, FiniteSets, TLC

\* ------------------------------------------------------------------ bounds
\* The clock is read at most MaxClock times (one read per created record).
MaxClock == 3
\* The form and the import do not grow the transaction list beyond
\* MaxTransactions records.
MaxTransactions == 3
\* At most MaxReads file reads are in flight at once.
MaxReads == 1
\* Most file reads pending at a time where imports overlap.
MaxOverlap == 2

\* ------------------------------------------------------------ option values
\* x | null of the source: None is null, Some(x) a value.
None == <<>>
Some(x) == <<x>>
Get(o) == o[1]

\* ------------------------------------------------------------ enumerations
\* enum DebtStatus
UNPAID == "UNPAID"
PAID == "PAID"
\* enum TransactionType, enum PaymentMethod (./types): the values are the
\* texts the CSV format of spec section 6 carries.
INCOME == <<"INCOME">>
EXPENSE == <<"EXPENSE">>
CASH == <<"CASH">>
BANK == <<"BANK">>
TransactionTypeValues == {INCOME, EXPENSE}

\* ------------------------------------------------------------------- text
DigitSyms == <<"0", "1", "2", "3", "4", "5", "6", "7", "8", "9">>
IsDigit(c) == \E i \in 1..10 : DigitSyms[i] = c
DigitValue(c) == (CHOOSE i \in 1..10 : DigitSyms[i] = c) - 1

\* StrWhiteSpaceChar of String.prototype.trim and parseFloat
IsWhiteSpace(c) == c \in {" ", "\t", "\r", "\n", "U+FEFF"}

RECURSIVE TrimStart(_)
TrimStart(s) ==
  IF s # <<>> /\ IsWhiteSpace(Head(s)) THEN TrimStart(Tail(s)) ELSE s

RECURSIVE TrimEnd(_)
TrimEnd(s) ==
  IF s # <<>> /\ IsWhiteSpace(s[Len(s)])
  THEN TrimEnd(SubSeq(s, 1, Len(s) - 1))
  ELSE s

\* String.prototype.trim
trim(s) == TrimEnd(TrimStart(s))

\* numeralMap of convertToEnglishNumerals: U+0660..U+0669 and U+06F0..U+06F9
ArabicIndic == <<"U+0660", "U+0661", "U+0662", "U+0663", "U+0664",
                 "U+0665", "U+0666", "U+0667", "U+0668", "U+0669">>
ExtendedArabicIndic == <<"U+06F0", "U+06F1", "U+06F2", "U+06F3", "U+06F4",
                         "U+06F5", "U+06F6", "U+06F7", "U+06F8", "U+06F9">>
numeralMap(c) ==
  IF \E i \in 1..10 : ArabicIndic[i] = c
  THEN DigitSyms[CHOOSE i \in 1..10 : ArabicIndic[i] = c]
  ELSE IF \E i \in 1..10 : ExtendedArabicIndic[i] = c
       THEN DigitSyms[CHOOSE i \in 1..10 : ExtendedArabicIndic[i] = c]
       ELSE c

\* Mutant of convertToEnglishNumerals: the range U+06F0-U+06F9 is missing.
convertArabicIndicOnly(str) ==
  [i \in 1..Len(str) |->
     IF \E k \in 1..10 : ArabicIndic[k] = str[i] THEN numeralMap(str[i])
     ELSE str[i]]

convertToEnglishNumerals(str) == [i \in 1..Len(str) |-> numeralMap(str[i])]

\* Number.prototype.toString for a non-negative integer
RECURSIVE NatToString(_)
NatToString(n) ==
  IF n < 10 THEN <<DigitSyms[n + 1]>>
  ELSE NatToString(n \div 10) \o <<DigitSyms[(n % 10) + 1]>>

\* The longest prefix of s made of digits.
RECURSIVE DigitRun(_)
DigitRun(s) ==
  IF s # <<>> /\ IsDigit(Head(s)) THEN <<Head(s)>> \o DigitRun(Tail(s)) ELSE <<>>

RECURSIVE DigitsToNat(_)
DigitsToNat(ds) ==
  IF ds = <<>> THEN 0
  ELSE DigitsToNat(SubSeq(ds, 1, Len(ds) - 1)) * 10 + DigitValue(ds[Len(ds)])

\* Hundredths denoted by the fraction digits fs (at most two in the inputs).
FractionHundredths(fs) ==
  IF fs = <<>> THEN 0
  ELSE IF Len(fs) = 1 THEN 10 * DigitValue(fs[1])
  ELSE 10 * DigitValue(fs[1]) + DigitValue(fs[2])

\* parseFloat: skips leading white space, reads the longest prefix that is a
\* decimal literal (sign, digits, fraction) and ignores whatever follows it;
\* NaN when there is no such prefix.  The value is in hundredths.
parseFloat(str) ==
  LET s0 == TrimStart(str)
      signed == s0 # <<>> /\ Head(s0) \in {"+", "-"}
      s1 == IF signed THEN Tail(s0) ELSE s0
      ints == DigitRun(s1)
      s2 == SubSeq(s1, Len(ints) + 1, Len(s1))
      fracs == IF s2 # <<>> /\ Head(s2) = "." THEN DigitRun(Tail(s2)) ELSE <<>>
      magnitude == 100 * DigitsToNat(ints) + FractionHundredths(fracs)
  IN IF ints = <<>> /\ fracs = <<>>
     THEN [isNaN |-> TRUE, value |-> 0]
     ELSE [isNaN |-> FALSE,
           value |-> IF signed /\ Head(s0) = "-" THEN 0 - magnitude ELSE magnitude]

\* ------------------------------------------------------------------ clock
\* Date.prototype.toISOString for an instant t < 1000 ms after the epoch.
ISOSecondsPrefix == <<"1", "9", "7", "0", "-", "0", "1", "-", "0", "1", "T",
                      "0", "0", ":", "0", "0", ":", "0", "0", ".">>
toISOString(t) ==
  ISOSecondsPrefix
    \o <<DigitSyms[((t \div 100) % 10) + 1], DigitSyms[((t \div 10) % 10) + 1],
         DigitSyms[(t % 10) + 1], "Z">>

\* ------------------------------------------------------------------ state
VARIABLES
  transactions,           \* Transaction[]: newest first
  debts,                  \* Debt[]: newest first
  description,            \* transaction form
  amount,
  type,
  debtClientName,         \* debt form
  debtDescription,
  debtAmount,
  debtNotes,
  activeAccountView,      \* CASH or BANK
  isTransactionModalOpen,
  transactionToDelete,    \* string | null
  isDebtModalOpen,
  debtToDelete,           \* string | null
  debtToSettle,           \* Debt | null
  isAccountantMode,       \* ?mode=accountant of the page URL
  localStorage,           \* [transactions, debts]: the two stored arrays
  reading,                \* texts of the files whose FileReader has not fired
  now,                    \* last value the clock returned
  searchTerm,             \* filters of the transaction list
  filterType,             \* 'all' or a TransactionType
  startDate,              \* 'YYYY-MM-DD' or ''
  endDate,
  activeView,             \* 'transactions', 'debts' or 'reports'
  alerted,                \* text of the last window.alert, '' before the first
  groupingMode,           \* 'daily' or 'weekly'
  timeZone                \* hours the local time of the host is ahead of UTC

txForm == <<description, amount, type>>
debtForm == <<debtClientName, debtDescription, debtAmount, debtNotes>>
txModal == <<isTransactionModalOpen, transactionToDelete>>
debtModal == <<isDebtModalOpen, debtToDelete>>
vars == <<transactions, debts, description, amount, type, debtClientName,
          debtDescription, debtAmount, debtNotes, activeAccountView,
          isTransactionModalOpen, transactionToDelete, isDebtModalOpen,
          debtToDelete, debtToSettle, isAccountantMode, localStorage,
          reading, now, searchTerm, filterType, startDate, endDate,
          activeView, alerted, groupingMode, timeZone>>
filterView == <<searchTerm, filterType, startDate, endDate, activeView>>
groupView == <<groupingMode, timeZone>>
\* everything but the alert
appState == <<transactions, debts, txForm, debtForm, activeAccountView, txModal,
              debtModal, debtToSettle, isAccountantMode, localStorage, reading,
              now, filterView, groupView>>

\* ------------------------------------------------------------ persistence
\* An item of localStorage: absent (getItem returns null), the JSON text of an
\* array, or a text JSON.parse throws on.
AbsentItem == [kind |-> "null"]
UnparseableItem == [kind |-> "unparseable"]
JSONstringify(xs) == [kind |-> "json", value |-> xs]

\* { ...t, paymentMethod: t.paymentMethod || PaymentMethod.CASH }: an absent
\* and an empty paymentMethod are falsy.
Migrate(t) ==
  [k \in (DOMAIN t) \cup {"paymentMethod"} |->
     IF k = "paymentMethod"
     THEN (IF "paymentMethod" \in DOMAIN t /\ t.paymentMethod # <<>>
           THEN t.paymentMethod ELSE CASH)
     ELSE t[k]]

\* Mutant of loadTransactions: the stored records are returned as they are.
loadTransactionsUnmigrated(stored) ==
  IF stored.kind = "json" THEN stored.value ELSE <<>>

\* The initialiser of the transactions state: [] when the item is absent,
\* the parsed and migrated records, [] when JSON.parse throws.
loadTransactions(stored) ==
  IF stored.kind = "json"
  THEN [i \in 1..Len(stored.value) |-> Migrate(stored.value[i])]
  ELSE <<>>

\* Mutant of loadDebts: the load gives every debt the status UNPAID.
loadDebtsAsUnpaid(stored) ==
  IF stored.kind = "json"
  THEN [i \in 1..Len(stored.value) |-> [stored.value[i] EXCEPT !.status = UNPAID]]
  ELSE <<>>

\* The initialiser of the debts state
loadDebts(stored) == IF stored.kind = "json" THEN stored.value ELSE <<>>

\* Mutant of Persist: the effect that writes the debts is missing.
PersistTransactionsOnly ==
  localStorage' = [transactions |-> JSONstringify(transactions'),
                   debts |-> localStorage.debts]

\* The two persistence effects, run after every state change: each writes the
\* whole collection under its key.
Persist ==
  localStorage' = [transactions |-> JSONstringify(transactions'),
                   debts |-> JSONstringify(debts')]

\* --------------------------------------------------------- derived values
\* +amount for INCOME, -amount for anything else (the else branch of the sums)
SignedAmount(t) == IF t.type = INCOME THEN t.amount ELSE 0 - t.amount

RECURSIVE SumSeq(_)
SumSeq(ns) == IF ns = <<>> THEN 0 ELSE Head(ns) + SumSeq(Tail(ns))

IsCash(t) == t.paymentMethod = CASH
IsIncome(t) == t.type = INCOME

\* cashInc, cashExp, bankInc, bankExp of the balance memo: every transaction
\* that is not CASH is counted as bank, everything that is not INCOME as expense.
cashInc(txs) ==
  SumSeq([i \in 1..Len(txs) |->
            IF IsCash(txs[i]) /\ IsIncome(txs[i]) THEN txs[i].amount ELSE 0])
cashExp(txs) ==
  SumSeq([i \in 1..Len(txs) |->
            IF IsCash(txs[i]) /\ ~IsIncome(txs[i]) THEN txs[i].amount ELSE 0])
bankInc(txs) ==
  SumSeq([i \in 1..Len(txs) |->
            IF ~IsCash(txs[i]) /\ IsIncome(txs[i]) THEN txs[i].amount ELSE 0])
bankExp(txs) ==
  SumSeq([i \in 1..Len(txs) |->
            IF ~IsCash(txs[i]) /\ ~IsIncome(txs[i]) THEN txs[i].amount ELSE 0])

cashBalance == cashInc(transactions) - cashExp(transactions)
bankBalance == bankInc(transactions) - bankExp(transactions)
totalBalance ==
  (cashInc(transactions) + bankInc(transactions))
    - (cashExp(transactions) + bankExp(transactions))

\* debts.filter(d => d.status === UNPAID).reduce((sum, d) => sum + d.amount, 0)
UnpaidTotal(ds) ==
  SumSeq([i \in 1..Len(ds) |-> IF ds[i].status = UNPAID THEN ds[i].amount ELSE 0])
totalUnpaidDebts == UnpaidTotal(debts)

\* ----------------------------------------------------------------- alerts
\* window.alert(message)
alert(message) == alerted' = message

\* The texts of the alerts (the Arabic sentences, one symbol each).
InvalidTransactionAlert == <<"enter a description and a valid amount">>
InvalidDebtAlert == <<"enter the client name, the description and a valid amount">>
NoSettlePermissionAlert == <<"no permission to change debts in accountant mode">>
NoDeletePermissionAlert == <<"no permission to delete in accountant mode">>
NothingToExportAlert == <<"no data to export">>

\* filterType of all types
ALL == <<"all">>

\* ---------------------------------------------------------------- Init
\* The page opened on an empty localStorage, with or without ?mode=accountant.
Init ==
  /\ transactions = <<>>
  /\ debts = <<>>
  /\ description = <<>>
  /\ amount = <<>>
  /\ type = INCOME
  /\ debtClientName = <<>>
  /\ debtDescription = <<>>
  /\ debtAmount = <<>>
  /\ debtNotes = <<>>
  /\ activeAccountView = CASH
  /\ isTransactionModalOpen = FALSE
  /\ transactionToDelete = None
  /\ isDebtModalOpen = FALSE
  /\ debtToDelete = None
  /\ debtToSettle = None
  /\ isAccountantMode \in BOOLEAN
  /\ localStorage = [transactions |-> JSONstringify(<<>>),
                      debts |-> JSONstringify(<<>>)]
  /\ reading = <<>>
  /\ now = 0
  /\ searchTerm = <<>>
  /\ filterType = ALL
  /\ startDate = <<>>
  /\ endDate = <<>>
  /\ activeView = <<"transactions">>
  /\ alerted = <<>>
  /\ groupingMode = <<"daily">>
  /\ timeZone = 0                       \* a host whose local time is UTC

\* ------------------------------------------------------- transaction form
\* onChange of the inputs: the typed text goes through convertToEnglishNumerals
setDescription(values) ==
  /\ \E v \in values : description' = convertToEnglishNumerals(v)
  /\ UNCHANGED <<filterView, groupView, alerted,
                 transactions, debts, amount, type, debtForm, activeAccountView,
                 txModal, debtModal, debtToSettle, isAccountantMode,
                 localStorage, reading, now>>

setAmount(values) ==
  /\ \E v \in values : amount' = convertToEnglishNumerals(v)
  /\ UNCHANGED <<filterView, groupView, alerted,
                 transactions, debts, description, type, debtForm,
                 activeAccountView, txModal, debtModal, debtToSettle,
                 isAccountantMode, localStorage, reading, now>>

setType ==
  /\ \E v \in TransactionTypeValues : type' = v
  /\ UNCHANGED <<filterView, groupView, alerted,
                 transactions, debts, description, amount, debtForm,
                 activeAccountView, txModal, debtModal, debtToSettle,
                 isAccountantMode, localStorage, reading, now>>

setActiveAccountView ==
  /\ \E v \in {CASH, BANK} : activeAccountView' = v
  /\ UNCHANGED <<filterView, groupView, alerted,
                 transactions, debts, txForm, debtForm, txModal, debtModal,
                 debtToSettle, isAccountantMode, localStorage, reading, now>>

\* The validation of both forms: parseFloat, isNaN, <= 0.
AmountRejected(text) == parseFloat(text).isNaN \/ parseFloat(text).value <= 0

handleTransactionSubmit ==
  IF trim(description) = <<>> \/ AmountRejected(amount)
  THEN alert(InvalidTransactionAlert) /\ UNCHANGED appState
  ELSE /\ now < MaxClock
       /\ Len(transactions) < MaxTransactions
       /\ now' = now + 1
       /\ LET newTransaction ==
                [description |-> trim(description),
                 amount |-> parseFloat(amount).value,
                 type |-> type,
                 id |-> NatToString(now'),
                 date |-> toISOString(now'),
                 paymentMethod |-> activeAccountView]
          IN transactions' = <<newTransaction>> \o transactions
       /\ description' = <<>>
       /\ amount' = <<>>
       /\ type' = INCOME
       /\ UNCHANGED <<filterView, groupView, alerted,
                      debts, debtForm, activeAccountView, txModal, debtModal,
                      debtToSettle, isAccountantMode, reading>>
       /\ Persist

\* -------------------------------------------------------------- debt form
setDebtClientName(values) ==
  /\ \E v \in values : debtClientName' = convertToEnglishNumerals(v)
  /\ UNCHANGED <<filterView, groupView, alerted,
                 transactions, debts, txForm, debtDescription, debtAmount,
                 debtNotes, activeAccountView, txModal, debtModal, debtToSettle,
                 isAccountantMode, localStorage, reading, now>>

setDebtDescription(values) ==
  /\ \E v \in values : debtDescription' = convertToEnglishNumerals(v)
  /\ UNCHANGED <<filterView, groupView, alerted,
                 transactions, debts, txForm, debtClientName, debtAmount,
                 debtNotes, activeAccountView, txModal, debtModal, debtToSettle,
                 isAccountantMode, localStorage, reading, now>>

setDebtAmount(values) ==
  /\ \E v \in values : debtAmount' = convertToEnglishNumerals(v)
  /\ UNCHANGED <<filterView, groupView, alerted,
                 transactions, debts, txForm, debtClientName, debtDescription,
                 debtNotes, activeAccountView, txModal, debtModal, debtToSettle,
                 isAccountantMode, localStorage, reading, now>>

setDebtNotes(values) ==
  /\ \E v \in values : debtNotes' = convertToEnglishNumerals(v)
  /\ UNCHANGED <<filterView, groupView, alerted,
                 transactions, debts, txForm, debtClientName, debtDescription,
                 debtAmount, activeAccountView, txModal, debtModal, debtToSettle,
                 isAccountantMode, localStorage, reading, now>>

debtId(t) == <<"debt", "-">> \o NatToString(t)

handleDebtSubmit ==
  IF trim(debtClientName) = <<>> \/ trim(debtDescription) = <<>>
       \/ AmountRejected(debtAmount)
  THEN alert(InvalidDebtAlert) /\ UNCHANGED appState
  ELSE /\ now < MaxClock
       /\ now' = now + 1
       /\ LET newDebt ==
                [id |-> debtId(now'),
                 clientName |-> trim(debtClientName),
                 description |-> trim(debtDescription),
                 amount |-> parseFloat(debtAmount).value,
                 status |-> UNPAID,
                 date |-> toISOString(now'),
                 notes |-> IF trim(debtNotes) # <<>>
                           THEN Some(trim(debtNotes)) ELSE None]
          IN debts' = <<newDebt>> \o debts
       /\ debtClientName' = <<>>
       /\ debtDescription' = <<>>
       /\ debtAmount' = <<>>
       /\ debtNotes' = <<>>
       /\ UNCHANGED <<filterView, groupView, alerted,
                      transactions, txForm, activeAccountView, txModal,
                      debtModal, debtToSettle, isAccountantMode, reading>>
       /\ Persist

\* ------------------------------------------------------------- settlement
SeqToSet(xs) == {xs[i] : i \in 1..Len(xs)}
\* The ids of the records the lists show: the arguments of the request handlers.
DebtIds == {d.id : d \in SeqToSet(debts)}
TransactionIds == {t.id : t \in SeqToSet(transactions)}

\* debts.find(d => d.id === debtId): the first match, or undefined
find(ds, id) ==
  IF \E i \in 1..Len(ds) : ds[i].id = id
  THEN Some(ds[CHOOSE i \in 1..Len(ds) :
                 ds[i].id = id /\ \A j \in 1..(i - 1) : ds[j].id # id])
  ELSE None

handleSettleDebtRequest(id) ==
  IF isAccountantMode
  THEN alert(NoSettlePermissionAlert) /\ UNCHANGED appState
  ELSE /\ debtToSettle' = IF find(debts, id) # None THEN find(debts, id)
                          ELSE debtToSettle
       /\ UNCHANGED <<filterView, groupView, alerted,
                      transactions, debts, txForm, debtForm, activeAccountView,
                      txModal, debtModal, isAccountantMode, localStorage,
                      reading, now>>

\* The text of the settlement transaction: "tasdid dayn: <client> - <description>"
SettleDescription(debt) ==
  <<"tasdid", " ", "dayn", ":", " ">> \o debt.clientName \o <<" ", "-", " ">>
    \o debt.description

\* Mutant of MarkPaid: the id test is missing, every debt is marked PAID.
MarkPaidAll(ds, id) == [i \in 1..Len(ds) |-> [ds[i] EXCEPT !.status = PAID]]

\* prev.map(d => d.id === debtToSettle.id ? { ...d, status: PAID } : d)
MarkPaid(ds, id) ==
  [i \in 1..Len(ds) |->
     IF ds[i].id = id THEN [ds[i] EXCEPT !.status = PAID] ELSE ds[i]]

handleConfirmSettleDebt(settleMethod) ==
  IF debtToSettle = None
  THEN UNCHANGED vars                       \* if (!debtToSettle) return
  ELSE /\ now < MaxClock
       /\ now' = now + 1
       /\ LET newTransaction ==
                [id |-> NatToString(now'),
                 description |-> SettleDescription(Get(debtToSettle)),
                 amount |-> Get(debtToSettle).amount,
                 type |-> INCOME,
                 date |-> toISOString(now'),
                 paymentMethod |-> settleMethod]
          IN transactions' = <<newTransaction>> \o transactions
       /\ debts' = MarkPaid(debts, Get(debtToSettle).id)
       /\ debtToSettle' = None
       /\ UNCHANGED <<filterView, groupView, alerted,
                      txForm, debtForm, activeAccountView, txModal, debtModal,
                      isAccountantMode, reading>>
       /\ Persist

\* The cancel button and the backdrop of the settle dialog: setDebtToSettle(null)
cancelSettleDebt ==
  /\ debtToSettle # None                    \* the dialog is rendered
  /\ debtToSettle' = None
  /\ UNCHANGED <<filterView, groupView, alerted,
                 transactions, debts, txForm, debtForm, activeAccountView,
                 txModal, debtModal, isAccountantMode, localStorage, reading, now>>

\* ---------------------------------------------------------------- deletion
handleDeleteTransactionRequest(id) ==
  IF isAccountantMode
  THEN alert(NoDeletePermissionAlert) /\ UNCHANGED appState
  ELSE /\ transactionToDelete' = Some(id)
       /\ isTransactionModalOpen' = TRUE
       /\ UNCHANGED <<filterView, groupView, alerted,
                      transactions, debts, txForm, debtForm, activeAccountView,
                      debtModal, debtToSettle, isAccountantMode, localStorage,
                      reading, now>>

\* prev.filter(x => x.id !== id)
RemoveId(xs, id) == SelectSeq(xs, LAMBDA x : x.id # id)

\* ConfirmationModal.handleConfirm of the transaction dialog:
\* onConfirm (handleConfirmTransactionDelete), then onClose.
handleConfirmTransactionDelete ==
  /\ isTransactionModalOpen                 \* the dialog is rendered
  /\ transactions' = IF transactionToDelete # None
                     THEN RemoveId(transactions, Get(transactionToDelete))
                     ELSE transactions
  /\ isTransactionModalOpen' = FALSE
  /\ transactionToDelete' = None
  /\ UNCHANGED <<filterView, groupView, alerted,
                 debts, txForm, debtForm, activeAccountView, debtModal,
                 debtToSettle, isAccountantMode, reading, now>>
  /\ Persist

\* onClose of the transaction dialog (cancel button, backdrop)
closeTransactionModal ==
  /\ isTransactionModalOpen
  /\ isTransactionModalOpen' = FALSE
  /\ UNCHANGED <<filterView, groupView, alerted,
                 transactions, debts, txForm, debtForm, activeAccountView,
                 transactionToDelete, debtModal, debtToSettle, isAccountantMode,
                 localStorage, reading, now>>

\* Mutant of handleDeleteDebtRequest: the accountant mode test is missing.
handleDeleteDebtRequestUnguarded(id) ==
  /\ debtToDelete' = Some(id)
  /\ isDebtModalOpen' = TRUE
  /\ UNCHANGED <<filterView, groupView, alerted,
                 transactions, debts, txForm, debtForm, activeAccountView,
                 txModal, debtToSettle, isAccountantMode, localStorage,
                 reading, now>>

handleDeleteDebtRequest(id) ==
  IF isAccountantMode
  THEN alert(NoDeletePermissionAlert) /\ UNCHANGED appState
  ELSE /\ debtToDelete' = Some(id)
       /\ isDebtModalOpen' = TRUE
       /\ UNCHANGED <<filterView, groupView, alerted,
                      transactions, debts, txForm, debtForm, activeAccountView,
                      txModal, debtToSettle, isAccountantMode, localStorage,
                      reading, now>>

\* Mutant of handleConfirmDebtDelete: the deletion cascades to the settlement
\* transactions of the deleted debt.
handleConfirmDebtDeleteCascade ==
  /\ isDebtModalOpen
  /\ debts' = IF debtToDelete # None
              THEN RemoveId(debts, Get(debtToDelete))
              ELSE debts
  /\ transactions' =
       SelectSeq(transactions,
                 LAMBDA t : \A i \in 1..Len(debts) :
                    debts[i].id = Get(debtToDelete)
                      => t.description # SettleDescription(debts[i]))
  /\ isDebtModalOpen' = FALSE
  /\ debtToDelete' = None
  /\ UNCHANGED <<filterView, groupView, alerted,
                 txForm, debtForm, activeAccountView, txModal,
                 debtToSettle, isAccountantMode, reading, now>>
  /\ Persist

\* ConfirmationModal.handleConfirm of the debt dialog:
\* onConfirm (handleConfirmDebtDelete), then onClose.
handleConfirmDebtDelete ==
  /\ isDebtModalOpen                        \* the dialog is rendered
  /\ debts' = IF debtToDelete # None
              THEN RemoveId(debts, Get(debtToDelete))
              ELSE debts
  /\ isDebtModalOpen' = FALSE
  /\ debtToDelete' = None
  /\ UNCHANGED <<filterView, groupView, alerted,
                 transactions, txForm, debtForm, activeAccountView, txModal,
                 debtToSettle, isAccountantMode, reading, now>>
  /\ Persist

\* onClose of the debt dialog (cancel button, backdrop)
closeDebtModal ==
  /\ isDebtModalOpen
  /\ isDebtModalOpen' = FALSE
  /\ UNCHANGED <<filterView, groupView, alerted,
                 transactions, debts, txForm, debtForm, activeAccountView,
                 txModal, debtToDelete, debtToSettle, isAccountantMode,
                 localStorage, reading, now>>

\* ------------------------------------------------------------------- mode
\* handleToggleMode sets window.location.href: the page is loaded again with
\* the other mode, every piece of component state is initialised anew and the
\* collections are read back from localStorage; pending file reads are lost.
handleToggleMode ==
  /\ isAccountantMode' = ~isAccountantMode
  /\ transactions' = loadTransactions(localStorage.transactions)
  /\ debts' = loadDebts(localStorage.debts)
  /\ description' = <<>>
  /\ amount' = <<>>
  /\ type' = INCOME
  /\ debtClientName' = <<>>
  /\ debtDescription' = <<>>
  /\ debtAmount' = <<>>
  /\ debtNotes' = <<>>
  /\ activeAccountView' = CASH
  /\ isTransactionModalOpen' = FALSE
  /\ transactionToDelete' = None
  /\ isDebtModalOpen' = FALSE
  /\ debtToDelete' = None
  /\ debtToSettle' = None
  /\ reading' = <<>>
  /\ searchTerm' = <<>>
  /\ filterType' = ALL
  /\ startDate' = <<>>
  /\ endDate' = <<>>
  /\ activeView' = <<"transactions">>
  /\ alerted' = <<>>
  /\ groupingMode' = <<"daily">>
  /\ UNCHANGED <<now, timeZone>>
  /\ Persist

\* ------------------------------------------------------------------ import
\* String.prototype.split(sep) for a one-symbol separator
RECURSIVE split(_, _)
split(s, sep) ==
  IF \E i \in 1..Len(s) : s[i] = sep
  THEN LET i == CHOOSE k \in 1..Len(s) :
                  s[k] = sep /\ \A j \in 1..(k - 1) : s[j] # sep
       IN <<SubSeq(s, 1, i - 1)>> \o split(SubSeq(s, i + 1, Len(s)), sep)
  ELSE <<s>>

\* values[1].replace(/"/g, '')
RemoveQuotes(s) == SelectSeq(s, LAMBDA c : c # "\"")

\* Mutant of ParseRow: the test of the type is missing.
ParseRowAnyType(row) ==
  LET values == split(row, ",")
      parsed == IF Len(values) >= 3 THEN parseFloat(values[3])
                ELSE [isNaN |-> TRUE, value |-> 0]
  IN IF parsed.isNaN THEN None
     ELSE IF values[1] = <<>> \/ Len(values) < 6 \/ values[6] = <<>>
          THEN None
          ELSE Some([id |-> values[1],
                     description |-> RemoveQuotes(values[2]),
                     amount |-> parsed.value,
                     type |-> values[4],
                     paymentMethod |-> values[5],
                     date |-> values[6]])

\* The body of rows.map: null (None) for a skipped row.  values[k] of the
\* source is values[k + 1] here; a missing value is undefined.
ParseRow(row) ==
  LET values == split(row, ",")
      parsed == IF Len(values) >= 3 THEN parseFloat(values[3])
                ELSE [isNaN |-> TRUE, value |-> 0]
  IN IF parsed.isNaN THEN None
     ELSE IF \/ values[1] = <<>>                       \* !transaction.id
             \/ Len(values) < 6                        \* date is undefined
             \/ values[6] = <<>>                       \* !transaction.date
             \/ values[4] \notin TransactionTypeValues
          THEN None
          ELSE Some([id |-> values[1],
                     description |-> RemoveQuotes(values[2]),
                     amount |-> parsed.value,
                     type |-> values[4],
                     paymentMethod |-> values[5],
                     date |-> values[6]])

\* rows.map(...).filter(t => t !== null)
RECURSIVE ParseRows(_)
ParseRows(rows) ==
  IF rows = <<>> THEN <<>>
  ELSE (IF ParseRow(Head(rows)) = None THEN <<>> ELSE <<Get(ParseRow(Head(rows)))>>)
         \o ParseRows(Tail(rows))

\* The messages of the two errors the try block throws.
EmptyCSVMessage == <<"the CSV file is empty or invalid">>
BadCSVFormatMessage == <<"the CSV format is wrong, use a file exported by this app">>
ImportErrorAlert(message) == <<"error while importing the file", ":", " ">> \o message
ImportedAlert(n) == <<"imported", " ">> \o NatToString(n) \o <<" ", "transactions">>

\* Mutant of ParseCSV: the names of the header columns are not tested.
ParseCSVAnyHeader(text) ==
  LET rows == SelectSeq(split(text, "\n"), LAMBDA row : trim(row) # <<>>)
  IN IF rows = <<>>
     THEN [ok |-> FALSE, message |-> EmptyCSVMessage, imported |-> <<>>]
     ELSE [ok |-> TRUE, message |-> <<>>, imported |-> ParseRows(Tail(rows))]

\* The try block up to importedTransactions: [ok |-> FALSE] when it throws.
ParseCSV(text) ==
  LET rows == SelectSeq(split(text, "\n"), LAMBDA row : trim(row) # <<>>)
      headers == [i \in 1..Len(split(Head(rows), ",")) |->
                    trim(split(Head(rows), ",")[i])]
  IN IF rows = <<>>
     THEN [ok |-> FALSE, message |-> EmptyCSVMessage, imported |-> <<>>]
     ELSE IF Len(headers) < 6 \/ headers[2] # <<"description">>
               \/ headers[3] # <<"amount">>
          THEN [ok |-> FALSE, message |-> BadCSVFormatMessage, imported |-> <<>>]
          ELSE [ok |-> TRUE, message |-> <<>>, imported |-> ParseRows(Tail(rows))]

\* Mutant of MergeImported: an imported transaction replaces the stored one
\* of the same id.
MergeImportedReplacing(prev, importedTransactions) ==
  LET importedIds ==
        {importedTransactions[i].id : i \in 1..Len(importedTransactions)}
  IN importedTransactions \o SelectSeq(prev, LAMBDA t : t.id \notin importedIds)

\* Mutant of MergeImported: the new list is the imported one, what the store
\* held is dropped.
MergeImportedOverwriting(prev, importedTransactions) == importedTransactions

\* Mutant of MergeImported: the ids are not compared, every imported
\* transaction is added.
MergeImportedAll(prev, importedTransactions) == importedTransactions \o prev

\* setTransactions(prev => [...imported not in prev, ...prev])
MergeImported(prev, importedTransactions) ==
  LET existingIds == {prev[i].id : i \in 1..Len(prev)}
      newTransactions ==
        SelectSeq(importedTransactions, LAMBDA t : t.id \notin existingIds)
  IN newTransactions \o prev

\* FileReader.readAsText: the UTF-8 decoder drops a leading byte order mark.
readAsText(file) ==
  IF file # <<>> /\ Head(file) = "U+FEFF" THEN Tail(file) ELSE file

\* handleImport: the chosen file starts to be read (reader.readAsText); at
\* most maxReads reads are pending at a time.
handleImportUpTo(files, maxReads) ==
  /\ Len(reading) < maxReads
  /\ \E file \in files : reading' = Append(reading, readAsText(file))
  /\ UNCHANGED <<filterView, groupView, alerted,
                 transactions, debts, txForm, debtForm, activeAccountView,
                 txModal, debtModal, debtToSettle, isAccountantMode,
                 localStorage, now>>

handleImport(files) == handleImportUpTo(files, MaxReads)

\* reader.onload of one of the pending reads
readerOnload ==
  \E k \in 1..Len(reading) :
    LET text == reading[k]
        result == ParseCSV(text)
    IN /\ reading' = SubSeq(reading, 1, k - 1) \o SubSeq(reading, k + 1, Len(reading))
       /\ IF text = <<>>                              \* if (!text) return
          THEN UNCHANGED <<transactions, alerted>>
          ELSE IF ~result.ok                          \* catch
               THEN /\ alert(ImportErrorAlert(result.message))
                    /\ UNCHANGED transactions
               ELSE /\ transactions' = MergeImported(transactions, result.imported)
                    /\ alert(ImportedAlert(Len(result.imported)))
       /\ Len(transactions') <= MaxTransactions
       /\ UNCHANGED <<filterView, groupView, debts, txForm, debtForm, activeAccountView,
                      txModal, debtModal, debtToSettle, isAccountantMode, now>>
       /\ Persist

\* ------------------------------------------------------------------ export
\* Array.prototype.join
RECURSIVE join(_, _)
join(parts, sep) ==
  IF parts = <<>> THEN <<>>
  ELSE IF Len(parts) = 1 THEN parts[1]
  ELSE parts[1] \o <<sep>> \o join(Tail(parts), sep)

\* str.replace(/"/g, '""')
RECURSIVE DoubleQuotes(_)
DoubleQuotes(str) ==
  IF str = <<>> THEN <<>>
  ELSE (IF Head(str) = "\"" THEN <<"\"", "\"">> ELSE <<Head(str)>>)
         \o DoubleQuotes(Tail(str))

escapeCSV(field) ==
  IF \E i \in 1..Len(field) : field[i] \in {"\"", ",", "\n", "\r"}
  THEN <<"\"">> \o DoubleQuotes(field) \o <<"\"">>
  ELSE field

\* Number.prototype.toString of an amount in hundredths: no trailing zeros.
NumberToString(v) ==
  LET m == IF v < 0 THEN 0 - v ELSE v
      whole == NatToString(m \div 100)
      cents == m % 100
      fraction == IF cents = 0 THEN <<>>
                  ELSE IF cents % 10 = 0 THEN <<".", DigitSyms[(cents \div 10) + 1]>>
                  ELSE <<".", DigitSyms[(cents \div 10) + 1], DigitSyms[(cents % 10) + 1]>>
  IN (IF v < 0 THEN <<"-">> ELSE <<>>) \o whole \o fraction

\* The header line handleExport writes.
HeaderRow ==
  join(<<<<"id">>, <<"description">>, <<"amount">>, <<"type">>,
         <<"paymentMethod">>, <<"date">>>>, ",")

csvRows(txs) ==
  [i \in 1..Len(txs) |->
     join(<<escapeCSV(txs[i].id), escapeCSV(txs[i].description),
            NumberToString(txs[i].amount), escapeCSV(txs[i].type),
            escapeCSV(txs[i].paymentMethod), escapeCSV(txs[i].date)>>, ",")]

\* The content of the Blob: the byte order mark and the lines joined by \n
csvBlob(txs) == <<"U+FEFF">> \o join(<<HeaderRow>> \o csvRows(txs), "\n")

\* handleExport: an alert when there is nothing to export; otherwise the file
\* is handed to the browser as a download and the state stays as it is.
handleExport ==
  IF transactions = <<>>
  THEN alert(NothingToExportAlert) /\ UNCHANGED appState
  ELSE UNCHANGED vars

\* ----------------------------------------------------------------- filters
\* The Latin letters
UpperCase ==
  <<"A", "B", "C", "D", "E", "F", "G", "H", "I", "J", "K", "L", "M", "N",
    "O", "P", "Q", "R", "S", "T", "U", "V", "W", "X", "Y", "Z">>
LowerCase ==
  <<"a", "b", "c", "d", "e", "f", "g", "h", "i", "j", "k", "l", "m", "n",
    "o", "p", "q", "r", "s", "t", "u", "v", "w", "x", "y", "z">>

\* The punctuation of the texts, with its codes
Punctuation == <<"\t", "\n", "\r", " ", "\"", "+", ",", "-", ".", ":">>
PunctuationCodes == <<9, 10, 13, 32, 34, 43, 44, 45, 46, 58>>

\* The UTF-16 code unit of a symbol that is one character.
CodeUnit(c) ==
  IF \E i \in 1..10 : DigitSyms[i] = c
  THEN 47 + (CHOOSE i \in 1..10 : DigitSyms[i] = c)
  ELSE IF \E i \in 1..26 : UpperCase[i] = c
  THEN 64 + (CHOOSE i \in 1..26 : UpperCase[i] = c)
  ELSE IF \E i \in 1..26 : LowerCase[i] = c
  THEN 96 + (CHOOSE i \in 1..26 : LowerCase[i] = c)
  ELSE IF \E i \in 1..Len(Punctuation) : Punctuation[i] = c
  THEN PunctuationCodes[CHOOSE i \in 1..Len(Punctuation) : Punctuation[i] = c]
  ELSE IF \E i \in 1..10 : ArabicIndic[i] = c
  THEN 1631 + (CHOOSE i \in 1..10 : ArabicIndic[i] = c)
  ELSE IF \E i \in 1..10 : ExtendedArabicIndic[i] = c
  THEN 1775 + (CHOOSE i \in 1..10 : ExtendedArabicIndic[i] = c)
  ELSE 65279                                  \* U+FEFF

\* a < b of two strings: the comparison by code units
RECURSIVE LessThan(_, _)
LessThan(a, b) ==
  IF b = <<>> THEN FALSE
  ELSE IF a = <<>> THEN TRUE
  ELSE IF CodeUnit(Head(a)) # CodeUnit(Head(b))
  THEN CodeUnit(Head(a)) < CodeUnit(Head(b))
  ELSE LessThan(Tail(a), Tail(b))

\* String.prototype.toLowerCase
toLowerCase(str) ==
  [i \in 1..Len(str) |->
     IF \E k \in 1..26 : UpperCase[k] = str[i]
     THEN LowerCase[CHOOSE k \in 1..26 : UpperCase[k] = str[i]]
     ELSE str[i]]

\* String.prototype.includes
includes(str, searchString) ==
  \E i \in 0..(Len(str) - Len(searchString)) :
    SubSeq(str, i + 1, i + Len(searchString)) = searchString

\* str.slice(0, end)
slice(str, end) == SubSeq(str, 1, IF Len(str) < end THEN Len(str) ELSE end)

\* The test of the search term in the second filter of filteredTransactions
SearchMatches(term, text) ==
  LET englishSearchTerm == convertToEnglishNumerals(term)
  IN englishSearchTerm = <<>>
       \/ includes(toLowerCase(convertToEnglishNumerals(text)),
                   toLowerCase(englishSearchTerm))

\* The first filter: the account of the transactions view
InActiveAccount(t) ==
  IF activeView = <<"transactions">> THEN t.paymentMethod = activeAccountView
  ELSE TRUE

\* The second filter: search term, type and the two dates
PassesFilters(t) ==
  LET transactionDate == slice(t.date, 10)
  IN /\ SearchMatches(searchTerm, t.description)
     /\ ~(filterType # ALL /\ t.type # filterType)
     /\ ~(startDate # <<>> /\ LessThan(transactionDate, startDate))
     /\ ~(endDate # <<>> /\ LessThan(endDate, transactionDate))

\* Mutant of applyFilters: the result is given newest last.
applyFiltersReversed(txs) ==
  LET result == SelectSeq(SelectSeq(txs, InActiveAccount), PassesFilters)
  IN [i \in 1..Len(result) |-> result[Len(result) + 1 - i]]

\* The body of the memo: the two filters, one after the other
applyFilters(txs) == SelectSeq(SelectSeq(txs, InActiveAccount), PassesFilters)

filteredTransactions == applyFilters(transactions)

\* onChange of the search box, of the type select and of the two date inputs
setSearchTerm(values) ==
  /\ \E v \in values : searchTerm' = convertToEnglishNumerals(v)
  /\ UNCHANGED <<transactions, debts, txForm, debtForm, activeAccountView,
                 txModal, debtModal, debtToSettle, isAccountantMode,
                 groupView, localStorage, reading, now, filterType, startDate, endDate,
                 activeView, alerted>>

setFilterType(values) ==
  /\ \E v \in values : filterType' = v
  /\ UNCHANGED <<transactions, debts, txForm, debtForm, activeAccountView,
                 txModal, debtModal, debtToSettle, isAccountantMode,
                 groupView, localStorage, reading, now, searchTerm, startDate, endDate,
                 activeView, alerted>>

setStartDate(values) ==
  /\ \E v \in values : startDate' = v
  /\ UNCHANGED <<transactions, debts, txForm, debtForm, activeAccountView,
                 txModal, debtModal, debtToSettle, isAccountantMode,
                 groupView, localStorage, reading, now, searchTerm, filterType, endDate,
                 activeView, alerted>>

setEndDate(values) ==
  /\ \E v \in values : endDate' = v
  /\ UNCHANGED <<transactions, debts, txForm, debtForm, activeAccountView,
                 txModal, debtModal, debtToSettle, isAccountantMode,
                 groupView, localStorage, reading, now, searchTerm, filterType, startDate,
                 activeView, alerted>>

\* onClick of the three tabs
setActiveView ==
  /\ \E v \in {<<"transactions">>, <<"debts">>, <<"reports">>} : activeView' = v
  /\ UNCHANGED <<transactions, debts, txForm, debtForm, activeAccountView,
                 txModal, debtModal, debtToSettle, isAccountantMode,
                 groupView, localStorage, reading, now, searchTerm, filterType, startDate,
                 endDate, alerted>>

\* Mutant of handleClearFilters: setEndDate('') is missing.
handleClearFiltersButEndDate ==
  /\ searchTerm' = <<>>
  /\ filterType' = ALL
  /\ startDate' = <<>>
  /\ UNCHANGED <<transactions, debts, txForm, debtForm, activeAccountView,
                 txModal, debtModal, debtToSettle, isAccountantMode,
                 groupView, localStorage, reading, now, endDate, activeView, alerted>>

handleClearFilters ==
  /\ searchTerm' = <<>>
  /\ filterType' = ALL
  /\ startDate' = <<>>
  /\ endDate' = <<>>
  /\ UNCHANGED <<transactions, debts, txForm, debtForm, activeAccountView,
                 txModal, debtModal, debtToSettle, isAccountantMode,
                 groupView, localStorage, reading, now, activeView, alerted>>

\* ---------------------------------------------------------- typed inputs
\* What the user types into the debt form in the debt scenarios.
DebtClientNames == {<<"c">>}
DebtDescriptions == {<<"d">>}
DebtAmounts == {<<"2">>, <<"3">>}

\* ----------------------------------------------------------------- debts
\* The debt book: entering, settling and deleting debts, switching the mode
\* (which loads the page again from localStorage).
NextDebts ==
  \/ setDebtClientName(DebtClientNames)
  \/ setDebtDescription(DebtDescriptions)
  \/ setDebtAmount(DebtAmounts)
  \/ handleDebtSubmit
  \/ \E id \in DebtIds : handleSettleDebtRequest(id)
  \/ \E settleMethod \in {CASH, BANK} : handleConfirmSettleDebt(settleMethod)
  \/ cancelSettleDebt
  \/ \E id \in DebtIds : handleDeleteDebtRequest(id)
  \/ handleConfirmDebtDelete
  \/ closeDebtModal
  \/ handleToggleMode

SpecDebts == Init /\ [][NextDebts]_vars

\* ------------------------------------------------------------------ mode
\* The two modes: debts of one amount are entered, settled and deleted, the
\* settlement transactions are deleted, the mode is switched.
ModeDebtAmounts == {<<"2">>}

NextMode ==
  \/ setDebtClientName(DebtClientNames)
  \/ setDebtDescription(DebtDescriptions)
  \/ setDebtAmount(ModeDebtAmounts)
  \/ handleDebtSubmit
  \/ \E id \in DebtIds : handleSettleDebtRequest(id)
  \/ \E settleMethod \in {CASH, BANK} : handleConfirmSettleDebt(settleMethod)
  \/ cancelSettleDebt
  \/ \E id \in DebtIds : handleDeleteDebtRequest(id)
  \/ handleConfirmDebtDelete
  \/ closeDebtModal
  \/ \E id \in TransactionIds : handleDeleteTransactionRequest(id)
  \/ handleConfirmTransactionDelete
  \/ closeTransactionModal
  \/ handleToggleMode

SpecMode == Init /\ [][NextMode]_vars

\* ---------------------------------------------------------------- ledger
\* The transaction ledger: entering transactions, importing files.
\* What the user types into the transaction form in the ledger scenarios.
Descriptions == {<<"a">>}
Amounts == {<<"2">>}

\* The files offered to the import.
\* A file as the export writes it: one bank expense of 2.50.
FileExported ==
  join(<<HeaderRow,
         join(<<<<"7">>, <<"b">>, <<"2", ".", "5">>, EXPENSE, BANK, toISOString(7)>>, ",")>>,
       "\n")
\* A file edited by hand: the same id on two rows, a negative amount, a
\* payment method that is neither CASH nor BANK, and a row of unknown type.
FileEdited ==
  join(<<HeaderRow,
         join(<<<<"8">>, <<"b">>, <<"-", "5">>, INCOME, CASH, toISOString(8)>>, ","),
         join(<<<<"8">>, <<"b">>, <<"5">>, INCOME, <<"CARD">>, toISOString(8)>>, ","),
         join(<<<<"9">>, <<"b">>, <<"5">>, <<"REFUND">>, CASH, toISOString(9)>>, ",")>>,
       "\n")
\* A file of another program: the header is not the expected one.
FileForeign ==
  join(<<join(<<<<"date">>, <<"text">>, <<"value">>>>, ","),
         join(<<toISOString(7), <<"b">>, <<"5">>>>, ",")>>, "\n")
ImportFiles == {FileExported, FileEdited, FileForeign}

NextLedger ==
  \/ setDescription(Descriptions)
  \/ setAmount(Amounts)
  \/ setType
  \/ setActiveAccountView
  \/ handleTransactionSubmit
  \/ handleImport(ImportFiles)
  \/ readerOnload

SpecLedger == Init /\ [][NextLedger]_vars

\* ---------------------------------------------------------------- import
\* The import and the export: transactions are entered, files are imported.
\* The files offered to the import:
\* a file of zero bytes,
FileEmpty == <<>>
\* a file of one blank line,
FileBlank == <<"\n">>
\* an export without data rows: the byte order mark and the header,
FileHeaderOnly == <<"U+FEFF">> \o HeaderRow
\* a file whose second and third columns have other names,
FileRenamed ==
  join(<<join(<<<<"id">>, <<"text">>, <<"value">>, <<"type">>,
                <<"paymentMethod">>, <<"date">>>>, ","),
         join(<<<<"7">>, <<"m">>, <<"4">>, EXPENSE, BANK, toISOString(7)>>, ",")>>,
       "\n")
\* a file with rows to skip (an amount that is no number, no id, no date, an
\* unknown type) between a row whose id the clock also gives and a new row,
FileMixed ==
  <<"U+FEFF">> \o
  join(<<HeaderRow,
         join(<<<<"1">>, <<"m">>, <<"4">>, INCOME, CASH, toISOString(1)>>, ","),
         join(<<<<"5">>, <<"m">>, <<"x">>, INCOME, CASH, toISOString(5)>>, ","),
         join(<<<<>>, <<"m">>, <<"4">>, INCOME, CASH, toISOString(5)>>, ","),
         join(<<<<"5">>, <<"m">>, <<"4">>, INCOME, CASH>>, ","),
         join(<<<<"5">>, <<"m">>, <<"4">>, <<"REFUND">>, CASH, toISOString(5)>>, ","),
         join(<<<<"7">>, <<"m">>, <<"4">>, EXPENSE, BANK, toISOString(7)>>, ",")>>,
       "\n")
\* an export saved again with the line ends \r\n.
FileWindows ==
  join(<<HeaderRow \o <<"\r">>,
         join(<<<<"7">>, <<"b">>, <<"2", ".", "5">>, EXPENSE, BANK,
                toISOString(7)>>, ",") \o <<"\r">>>>,
       "\n")
ImportTexts ==
  {FileEmpty, FileBlank, FileHeaderOnly, FileRenamed, FileMixed, FileWindows}

NextImport ==
  \/ setDescription(Descriptions)
  \/ setAmount(Amounts)
  \/ handleTransactionSubmit
  \/ handleImport(ImportTexts)
  \/ readerOnload
  \/ handleExport

SpecImport == Init /\ [][NextImport]_vars

\* ------------------------------------------------------------ filter bar
\* The list and its filters: files are imported, the filters are set and
\* cleared, the view and the account are switched.
DateOn(day) ==
  <<"1", "9", "7", "0", "-", "0", "1", "-", "0", day, "T",
    "0", "0", ":", "0", "0", ":", "0", "0", ".", "0", "0", "0", "Z">>
\* Two files with transactions of three days, both accounts and both types;
\* the descriptions are written with digits of the three scripts.
FileDiary ==
  join(<<HeaderRow,
         join(<<<<"2", "1">>, <<"B", "U+0661">>, <<"4">>, INCOME, CASH,
                DateOn("2")>>, ","),
         join(<<<<"2", "2">>, <<"b", "1">>, <<"4">>, EXPENSE, BANK,
                DateOn("3")>>, ",")>>,
       "\n")
FileLater ==
  join(<<HeaderRow,
         join(<<<<"2", "3">>, <<"C", "U+06F1">>, <<"4">>, INCOME, CASH,
                DateOn("4")>>, ",")>>,
       "\n")
DiaryFiles == {FileDiary, FileLater}
\* What the user types and picks in the filter bar.
SearchTerms == {<<"b", "U+06F1">>, <<"C">>}
FilterTypes == {INCOME, EXPENSE}
FilterDates == {<<"1", "9", "7", "0", "-", "0", "1", "-", "0", "3">>}

NextFilter ==
  \/ handleImport(DiaryFiles)
  \/ readerOnload
  \/ setSearchTerm(SearchTerms)
  \/ setFilterType(FilterTypes)
  \/ setStartDate(FilterDates)
  \/ setEndDate(FilterDates)
  \/ setActiveView
  \/ setActiveAccountView
  \/ handleClearFilters

SpecFilter == Init /\ [][NextFilter]_vars

\* ------------------------------------------------------------------ load
\* The page opened on a localStorage that holds something: the records an
\* older version wrote (the first without paymentMethod), a text that is no
\* JSON, or nothing.
LegacyTransactions ==
  <<[id |-> <<"3", "1">>, description |-> <<"o">>, amount |-> 400,
     type |-> INCOME, date |-> DateOn("2")],
    [id |-> <<"3", "2">>, description |-> <<"o">>, amount |-> 300,
     type |-> EXPENSE, paymentMethod |-> BANK, date |-> DateOn("3")]>>
LegacyDebts ==
  <<[id |-> debtId(33), clientName |-> <<"c">>, description |-> <<"d">>,
     amount |-> 200, status |-> PAID, date |-> DateOn("2"), notes |-> None]>>
StoredTransactions ==
  {AbsentItem, UnparseableItem, JSONstringify(LegacyTransactions)}
StoredDebts == {AbsentItem, UnparseableItem, JSONstringify(LegacyDebts)}

\* The state after the initialisers of the first render: the collections are
\* what the load makes of the stored items, which the persistence effects have
\* not yet written again.
InitLoad ==
  /\ localStorage \in [transactions : StoredTransactions, debts : StoredDebts]
  /\ transactions = loadTransactions(localStorage.transactions)
  /\ debts = loadDebts(localStorage.debts)
  /\ description = <<>>
  /\ amount = <<>>
  /\ type = INCOME
  /\ debtClientName = <<>>
  /\ debtDescription = <<>>
  /\ debtAmount = <<>>
  /\ debtNotes = <<>>
  /\ activeAccountView = CASH
  /\ isTransactionModalOpen = FALSE
  /\ transactionToDelete = None
  /\ isDebtModalOpen = FALSE
  /\ debtToDelete = None
  /\ debtToSettle = None
  /\ isAccountantMode \in BOOLEAN
  /\ reading = <<>>
  /\ now = 0
  /\ searchTerm = <<>>
  /\ filterType = ALL
  /\ startDate = <<>>
  /\ endDate = <<>>
  /\ activeView = <<"transactions">>
  /\ alerted = <<>>
  /\ groupingMode = <<"daily">>
  /\ timeZone = 0                       \* a host whose local time is UTC

\* A file whose row has an empty paymentMethod column.
FileNoMethod ==
  join(<<HeaderRow,
         join(<<<<"4", "1">>, <<"m">>, <<"4">>, INCOME, <<>>, DateOn("4")>>, ",")>>,
       "\n")

NextLoad ==
  \/ setDescription(Descriptions)
  \/ setAmount(Amounts)
  \/ handleTransactionSubmit
  \/ handleImport({FileNoMethod})
  \/ readerOnload
  \/ handleToggleMode

SpecLoad == InitLoad /\ [][NextLoad]_vars

\* ----------------------------------------------------------------- entry
\* What the user types into the two forms in the entry scenarios: blank and
\* padded texts, amounts that are no number, zero, negative, positive, a
\* number written with a decimal comma and one written in Arabic-Indic digits.
EntryDescriptions == {<<" ">>, <<" ", "a">>}
EntryAmounts == {<<"x">>, <<"0">>, <<"-", "2">>, <<"2">>, <<"2", ",", "5">>,
                 <<"U+0662">>}
EntryClientNames == {<<" ">>, <<"c">>}
EntryDebtDescriptions == {<<"d">>}
EntryDebtAmounts == {<<"0">>, <<"3">>}
EntryDebtNotes == {<<"n">>}

NextEntry ==
  \/ setDescription(EntryDescriptions)
  \/ setAmount(EntryAmounts)
  \/ handleTransactionSubmit
  \/ setDebtClientName(EntryClientNames)
  \/ setDebtDescription(EntryDebtDescriptions)
  \/ setDebtAmount(EntryDebtAmounts)
  \/ setDebtNotes(EntryDebtNotes)
  \/ handleDebtSubmit

SpecEntry == Init /\ [][NextEntry]_vars

\* ================================================================ claims
Methods == {CASH, BANK}
HasDebt(ds, id) == \E i \in 1..Len(ds) : ds[i].id = id
HasUnpaidDebt(ds, id) == \E i \in 1..Len(ds) : ds[i].id = id /\ ds[i].status = UNPAID
HasPaidDebt(ds, id) == \E i \in 1..Len(ds) : ds[i].id = id /\ ds[i].status = PAID

\* The step settles the unpaid debt id by method m: the debt becomes PAID,
\* one INCOME transaction of its amount and of method m is put in front of
\* the unchanged list, and the unpaid total drops by that amount.
SettledExactly(id, m) ==
  \E i \in 1..Len(debts) :
    /\ debts[i].id = id
    /\ debts[i].status = UNPAID
    /\ Len(debts') = Len(debts)
    /\ debts'[i].id = id
    /\ debts'[i].status = PAID
    /\ Len(transactions') = Len(transactions) + 1
    /\ SubSeq(transactions', 2, Len(transactions')) = transactions
    /\ transactions'[1].type = INCOME
    /\ transactions'[1].amount = debts[i].amount
    /\ transactions'[1].paymentMethod = m
    /\ UnpaidTotal(debts') = UnpaidTotal(debts) - debts[i].amount

\* C1: settlement atomicity.  A settle request for an UNPAID debt d selects d,
\* and confirming with method M while d is UNPAID makes d PAID, adds exactly
\* one transaction (INCOME, amount of d, method M) and lowers
\* totalUnpaidDebts by exactly the amount of d.
C1_SettlementAtomicity ==
  [][ /\ \A i \in 1..Len(debts) :
           (handleSettleDebtRequest(debts[i].id) /\ ~isAccountantMode
              /\ debts[i].status = UNPAID)
             => debtToSettle' = Some(debts[i])
      /\ \A m \in Methods :
           (handleConfirmSettleDebt(m) /\ debtToSettle # None
              /\ HasUnpaidDebt(debts, Get(debtToSettle).id))
             => SettledExactly(Get(debtToSettle).id, m) ]_vars

\* A debt settled by bank transfer while another debt is still unpaid.
C1_Witness ==
  /\ debtToSettle = None
  /\ \E i, k \in 1..Len(debts) :
       /\ debts[i].status = PAID
       /\ debts[k].status = UNPAID
       /\ totalUnpaidDebts = debts[k].amount
       /\ \E j \in 1..Len(transactions) :
            /\ transactions[j].description = SettleDescription(debts[i])
            /\ transactions[j].amount = debts[i].amount
            /\ transactions[j].paymentMethod = BANK

\* C2: settlement is all-or-nothing.  A settle confirmation for a debt that
\* is no longer in the debt collection (debt not found) changes neither the
\* transactions nor the debts.
C2_SettleAllOrNothing ==
  [][ \A m \in Methods :
        (handleConfirmSettleDebt(m) /\ debtToSettle # None
           /\ ~HasDebt(debts, Get(debtToSettle).id))
          => UNCHANGED <<transactions, debts>> ]_vars

\* Sum of the signed amounts of the transactions that satisfy P.
SignedSum(txs, P(_)) ==
  SumSeq([i \in 1..Len(txs) |-> IF P(txs[i]) THEN SignedAmount(txs[i]) ELSE 0])

\* C3: balance consistency.  cashBalance + bankBalance = totalBalance,
\* totalBalance is the signed sum over all transactions, cashBalance the
\* signed sum over the CASH transactions and bankBalance the signed sum over
\* the BANK transactions.
C3_BalanceConsistency ==
  /\ cashBalance + bankBalance = totalBalance
  /\ totalBalance = SignedSum(transactions, LAMBDA t : TRUE)
  /\ cashBalance = SignedSum(transactions, LAMBDA t : t.paymentMethod = CASH)
  /\ bankBalance = SignedSum(transactions, LAMBDA t : t.paymentMethod = BANK)

\* No id occurs at two positions of xs.
UniqueIds(xs) ==
  \A i, j \in 1..Len(xs) : xs[i].id = xs[j].id => i = j

\* C4: id uniqueness.  No two transactions have the same id and no two debts
\* have the same id.
C4_IdUniqueness == UniqueIds(transactions) /\ UniqueIds(debts)

\* C5: transaction well-formedness.  Every transaction has amount > 0, a type
\* that is INCOME or EXPENSE and a paymentMethod that is CASH or BANK.
C5_TransactionWellFormed ==
  \A i \in 1..Len(transactions) :
    /\ transactions[i].amount > 0
    /\ transactions[i].type \in {INCOME, EXPENSE}
    /\ transactions[i].paymentMethod \in {CASH, BANK}

\* C6: the debt lifecycle is monotone.  In every step a debt that appears is
\* UNPAID, a debt that was PAID and still exists is PAID, and a debt that
\* still exists keeps its id, clientName, description, amount and date.
C6_DebtLifecycleMonotone ==
  [][ \A j \in 1..Len(debts') :
        IF HasDebt(debts, debts'[j].id)
        THEN \A i \in 1..Len(debts) :
               debts[i].id = debts'[j].id =>
                 /\ (debts[i].status = PAID => debts'[j].status = PAID)
                 /\ debts'[j].clientName = debts[i].clientName
                 /\ debts'[j].description = debts[i].description
                 /\ debts'[j].amount = debts[i].amount
                 /\ debts'[j].date = debts[i].date
        ELSE debts'[j].status = UNPAID ]_vars

\* A debt that is still PAID after a later debt was entered and the page was
\* loaded again from localStorage in accountant mode.
C6_Witness ==
  /\ isAccountantMode
  /\ \E i, k \in 1..Len(debts) :
       k < i /\ debts[i].status = PAID /\ debts[k].status = UNPAID

C8_DebtDeleteNoCascade ==
  [][ (handleConfirmDebtDelete /\ debtToDelete # None) =>
        /\ transactions' = transactions
        /\ \A i \in 1..Len(debts) :
             debts[i].id # Get(debtToDelete) =>
               \E j \in 1..Len(debts') : debts'[j] = debts[i]
        /\ \A j \in 1..Len(debts') :
             /\ debts'[j].id # Get(debtToDelete)
             /\ \E i \in 1..Len(debts) : debts[i] = debts'[j]
        /\ \A j1, j2 \in 1..Len(debts') :
             j1 < j2 =>
               \E i1, i2 \in 1..Len(debts) :
                 i1 < i2 /\ debts[i1] = debts'[j1] /\ debts[i2] = debts'[j2] ]_vars

\* The settled debt was deleted: its settlement transaction is still in the
\* list and the other debt is still there, unpaid.
C8_Witness ==
  /\ ~isDebtModalOpen
  /\ debtToDelete = None
  /\ Len(debts) = 1
  /\ debts[1].status = UNPAID
  /\ \E j \in 1..Len(transactions) :
       /\ transactions[j].type = INCOME
       /\ transactions[j].description = SettleDescription(debts[1])

\* C9: the accountant mode gates deletion and settlement.  In accountant mode
\* a request or confirmation to delete a transaction, delete a debt or settle
\* a debt changes neither collection nor the pending selections.
C9_AccountantModeGate ==
  [][ (/\ isAccountantMode
       /\ \/ \E id \in DebtIds \cup TransactionIds :
               \/ handleSettleDebtRequest(id)
               \/ handleDeleteDebtRequest(id)
               \/ handleDeleteTransactionRequest(id)
          \/ \E m \in Methods : handleConfirmSettleDebt(m)
          \/ handleConfirmTransactionDelete
          \/ handleConfirmDebtDelete)
        => UNCHANGED <<transactions, debts, txModal, debtModal, debtToSettle>> ]_vars

\* Accountant mode with a transaction, a paid debt and an unpaid debt on the
\* lists and nothing selected.
C9_Witness ==
  /\ isAccountantMode
  /\ transactions # <<>>
  /\ \E i \in 1..Len(debts) : debts[i].status = UNPAID
  /\ \E i \in 1..Len(debts) : debts[i].status = PAID
  /\ debtToSettle = None /\ transactionToDelete = None /\ debtToDelete = None

\* The whole text, trimmed, is a decimal number: sign, digits, fraction.
IsDecimalNumber(text) ==
  LET t == trim(text)
      u == IF t # <<>> /\ Head(t) \in {"+", "-"} THEN Tail(t) ELSE t
      ints == DigitRun(u)
      rest == SubSeq(u, Len(ints) + 1, Len(u))
  IN /\ u # <<>>
     /\ \/ rest = <<>>
        \/ /\ Head(rest) = "."
           /\ DigitRun(Tail(rest)) = Tail(rest)
           /\ (ints # <<>> \/ Tail(rest) # <<>>)

\* The amount text is non-numeric, zero or negative.
InvalidAmountText(text) ==
  ~IsDecimalNumber(text) \/ parseFloat(text).value <= 0

\* C10: entry validation.  Submitting the transaction form with a blank
\* description or an amount that is non-numeric, zero or negative changes
\* neither the transactions nor the form; likewise the debt form (blank
\* client name or description, invalid amount) and the debts.  Any other
\* submission adds exactly one record.
C10_EntryValidation ==
  [][ /\ handleTransactionSubmit =>
           IF trim(description) = <<>> \/ InvalidAmountText(amount)
           THEN UNCHANGED <<transactions, txForm>>
           ELSE Len(transactions') = Len(transactions) + 1 /\ debts' = debts
      /\ handleDebtSubmit =>
           IF \/ trim(debtClientName) = <<>> \/ trim(debtDescription) = <<>>
              \/ InvalidAmountText(debtAmount)
           THEN UNCHANGED <<debts, debtForm>>
           ELSE Len(debts') = Len(debts) + 1 /\ transactions' = transactions ]_vars

\* ----------------------------------------------------------- import claims
\* The step is reader.onload of the k-th pending read.
Onload(k) ==
  /\ k \in 1..Len(reading)
  /\ reading' = SubSeq(reading, 1, k - 1) \o SubSeq(reading, k + 1, Len(reading))
  /\ isAccountantMode' = isAccountantMode

\* The lines of a text that are not blank, and the n-th column of a line
\* ('' when the line has fewer columns).
Lines(text) == SelectSeq(split(text, "\n"), LAMBDA row : trim(row) # <<>>)
Column(row, n) ==
  IF Len(split(row, ",")) >= n THEN split(row, ",")[n] ELSE <<>>

\* The header row is missing, or its second and third columns are not
\* description and amount.
HeaderBroken(text) ==
  \/ Lines(text) = <<>>
  \/ trim(Column(Head(Lines(text)), 2)) # <<"description">>
  \/ trim(Column(Head(Lines(text)), 3)) # <<"amount">>

\* The header row has the six columns of an export.
HeaderExported(text) ==
  /\ Lines(text) # <<>>
  /\ Len(split(Head(Lines(text)), ",")) >= 6
  /\ ~HeaderBroken(text)

ImportErrors ==
  {ImportErrorAlert(EmptyCSVMessage), ImportErrorAlert(BadCSVFormatMessage)}

C12_EmptyImportIsError ==
  [][\A k \in 1..Len(reading) :
       (Onload(k) /\ (reading[k] = <<>> \/ Len(Lines(reading[k])) = 1))
         => (transactions' = transactions /\ alerted' \in ImportErrors)]_vars

\* A data row is valid: its amount parses, its id and date are not empty, its
\* type is INCOME or EXPENSE.
ValidRow(row) ==
  /\ ~parseFloat(Column(row, 3)).isNaN
  /\ Column(row, 1) # <<>>
  /\ Column(row, 6) # <<>>
  /\ Column(row, 4) \in {INCOME, EXPENSE}

\* The transaction a data row describes.
RowRecord(row) ==
  [id |-> Column(row, 1),
   description |-> SelectSeq(Column(row, 2), LAMBDA c : c # "\""),
   amount |-> parseFloat(Column(row, 3)).value,
   type |-> Column(row, 4),
   paymentMethod |-> Column(row, 5),
   date |-> Column(row, 6)]

DataRows(text) == Tail(Lines(text))
StoredIds == {transactions[i].id : i \in 1..Len(transactions)}
\* What the step put in front of the list.
Added == SubSeq(transactions', 1, Len(transactions') - Len(transactions))

\* C13: in an import, every transaction added comes from a valid row whose id
\* was not in the store (a row with an amount that is no number, an empty id
\* or date or an unknown type adds nothing), and every valid row whose id was
\* not in the store is added.
C13_ImportRowErrorsLocal ==
  [][\A k \in 1..Len(reading) :
       (Onload(k) /\ HeaderExported(reading[k]))
         => LET rows == DataRows(reading[k])
            IN /\ Len(transactions') >= Len(transactions)
               /\ \A i \in 1..Len(Added) :
                    \E j \in 1..Len(rows) :
                      /\ ValidRow(rows[j])
                      /\ Column(rows[j], 1) \notin StoredIds
                      /\ Added[i] = RowRecord(rows[j])
               /\ \A j \in 1..Len(rows) :
                    (ValidRow(rows[j]) /\ Column(rows[j], 1) \notin StoredIds)
                      => \E i \in 1..Len(Added) : Added[i] = RowRecord(rows[j])]_vars

\* The file with four rows to skip was imported: its last row is in the store,
\* no row with the id of the skipped rows is.
C13_Witness ==
  /\ \E i \in 1..Len(transactions) :
       transactions[i].id = <<"7">> /\ transactions[i].description = <<"m">>
  /\ \A i \in 1..Len(transactions) : transactions[i].id # <<"5">>
  /\ alerted = ImportedAlert(2)

\* The valid rows, in file order, whose id is not in ids.
RECURSIVE NewRecords(_, _)
NewRecords(rows, ids) ==
  IF rows = <<>> THEN <<>>
  ELSE (IF ValidRow(Head(rows)) /\ Column(Head(rows), 1) \notin ids
        THEN <<RowRecord(Head(rows))>> ELSE <<>>) \o NewRecords(Tail(rows), ids)

\* C14: after an import into a store holding the list P, the list is N
\* followed by P, P unchanged, N the valid imported transactions, in file
\* order, whose id does not occur in P.
C14_ImportDedupPlacement ==
  [][\A k \in 1..Len(reading) :
       (Onload(k) /\ HeaderExported(reading[k]))
         => transactions' =
              NewRecords(DataRows(reading[k]), StoredIds) \o transactions]_vars

\* The file whose first row has the id 1 was imported into a store that held
\* the entered transaction 1: the entered one is kept, the new row is in front.
C14_Witness ==
  /\ Len(transactions) >= 2
  /\ transactions[1].id = <<"7">>
  /\ transactions[1].description = <<"m">>
  /\ \E i \in 2..Len(transactions) :
       transactions[i].id = <<"1">> /\ transactions[i].description = <<"a">>
  /\ \A i \in 2..Len(transactions) : transactions[i].description # <<"m">>

\* C15: the count a successful import reports is the number of transactions
\* the import added to the store.
C15_ImportSummaryCount ==
  [][\A k \in 1..Len(reading) :
       (Onload(k) /\ HeaderExported(reading[k]))
         => alerted' = ImportedAlert(Len(transactions') - Len(transactions))]_vars

\* No comma, double quote or line break in a text.
Plain(str) == \A i \in 1..Len(str) : str[i] \notin {",", "\"", "\n", "\r"}

\* handleExport, then handleImport of the downloaded file in an empty store.
Reimported(txs) ==
  LET result == ParseCSV(readAsText(csvBlob(txs)))
  IN IF result.ok THEN MergeImported(<<>>, result.imported) ELSE <<>>

\* C16: a transaction list with distinct ids and descriptions without comma,
\* double quote and line break, exported and imported into an empty store, is
\* the same list again: same length and order, every field equal.
C16_ExportImportRoundTrip ==
  ((\A i \in 1..Len(transactions) : Plain(transactions[i].description))
     /\ (\A i, j \in 1..Len(transactions) :
           transactions[i].id = transactions[j].id => i = j)
     /\ transactions # <<>>)
    => Reimported(transactions) = transactions

\* ----------------------------------------------------------- filter claims
\* xs is ys with some elements left out.
RECURSIVE IsSubsequence(_, _)
IsSubsequence(xs, ys) ==
  IF xs = <<>> THEN TRUE
  ELSE IF ys = <<>> THEN FALSE
  ELSE IF Head(xs) = Head(ys) THEN IsSubsequence(Tail(xs), Tail(ys))
  ELSE IsSubsequence(xs, Tail(ys))

\* The step changes a setting of the filter and does not load the page.
FilterSettingStep ==
  /\ <<filterView, activeAccountView>>' # <<filterView, activeAccountView>>
  /\ isAccountantMode' = isAccountantMode

\* C17: whatever the account, the search term, the type filter and the dates
\* are, the filtered list is a subsequence of the transaction list, filtering
\* it again gives the same list, and setting a filter leaves the transaction
\* list as it is.
C17_FilterPureIdempotent ==
  /\ [](/\ IsSubsequence(filteredTransactions, transactions)
        /\ applyFilters(filteredTransactions) = filteredTransactions)
  /\ [][FilterSettingStep => transactions' = transactions]_vars

\* A search term is set and the filter keeps two of three transactions.
C17_Witness ==
  /\ searchTerm # <<>>
  /\ Len(transactions) = 3
  /\ Len(filteredTransactions) = 2

\* The step is handleClearFilters: the filters change and are all clear after
\* it, or two of them change at once.
FiltersChanged ==
  {n \in 1..4 : <<searchTerm, filterType, startDate, endDate>>[n]'
                  # <<searchTerm, filterType, startDate, endDate>>[n]}
ClearStep ==
  /\ isAccountantMode' = isAccountantMode
  /\ \/ Cardinality(FiltersChanged) >= 2
     \/ /\ FiltersChanged # {}
        /\ (searchTerm' = <<>> /\ filterType' = ALL
              /\ startDate' = <<>> /\ endDate' = <<>>)

\* The transactions of the active account in the transactions view, all
\* transactions in the other views.
AccountScoped ==
  IF activeView = <<"transactions">>
  THEN SelectSeq(transactions, LAMBDA t : t.paymentMethod = activeAccountView)
  ELSE transactions

\* C18 as stated: after handleClearFilters the filtered list is the whole
\* transaction list, every transaction of the store in its order.
C18_ClearShowsAll ==
  [][ClearStep => filteredTransactions' = transactions']_vars

\* C18 as amended: after handleClearFilters the filtered list is, in the
\* transactions view, the list of the transactions of the active account in
\* the order of the store, and in the other views the whole list.
C18_ClearShowsAccount ==
  [][ClearStep => filteredTransactions' = AccountScoped']_vars

\* No filter is set, the store holds transactions of both accounts and the
\* list shows those of the active account.
C18_Witness ==
  /\ searchTerm = <<>> /\ filterType = ALL /\ startDate = <<>> /\ endDate = <<>>
  /\ Len(transactions) = 3
  /\ activeView = <<"transactions">>
  /\ activeAccountView = CASH
  /\ Len(filteredTransactions) = 2

\* The symbols that are the same digit in another script or the same letter
\* in the other case.
Alternatives(c) ==
  {c} \cup {DigitSyms[k] : k \in {n \in 1..10 : c \in {DigitSyms[n], ArabicIndic[n], ExtendedArabicIndic[n]}}}
      \cup {ArabicIndic[k] : k \in {n \in 1..10 : c \in {DigitSyms[n], ArabicIndic[n], ExtendedArabicIndic[n]}}}
      \cup {ExtendedArabicIndic[k] : k \in {n \in 1..10 : c \in {DigitSyms[n], ArabicIndic[n], ExtendedArabicIndic[n]}}}
      \cup {UpperCase[k] : k \in {n \in 1..26 : c \in {UpperCase[n], LowerCase[n]}}}
      \cup {LowerCase[k] : k \in {n \in 1..26 : c \in {UpperCase[n], LowerCase[n]}}}

\* The texts that differ from str in the script of digits and the case of
\* letters only.
RECURSIVE Variants(_)
Variants(str) ==
  IF str = <<>> THEN {<<>>}
  ELSE {<<c>> \o rest : c \in Alternatives(Head(str)), rest \in Variants(Tail(str))}

\* C19: the search gives the same answer for a term and a description when
\* digits of either are written in another script (ASCII, Arabic-Indic,
\* Extended Arabic-Indic) or letters in the other case.
C19_SearchNumeralNormalization ==
  \A i \in 1..Len(transactions) :
    \A q \in Variants(searchTerm), text \in Variants(transactions[i].description) :
      SearchMatches(q, text)
        = SearchMatches(searchTerm, transactions[i].description)

\* The term typed as b and the Extended Arabic-Indic digit one finds the
\* description B and the Arabic-Indic digit one and the description b1.
C19_Witness ==
  /\ searchTerm = <<"b", "1">>
  /\ activeView = <<"reports">>
  /\ Len(filteredTransactions) = 2
  /\ filteredTransactions[1].description = <<"B", "U+0661">>
  /\ filteredTransactions[2].description = <<"b", "1">>

\* ------------------------------------------------------------- load claims
\* The record has no payment method: the field is absent or empty.
LacksMethod(t) == "paymentMethod" \notin DOMAIN t \/ t.paymentMethod = <<>>

\* loaded is stored with the payment method CASH where stored has none.
LoadedFrom(loaded, stored) ==
  /\ Len(loaded) = Len(stored)
  /\ \A i \in 1..Len(stored) :
       /\ DOMAIN loaded[i] = (DOMAIN stored[i]) \cup {"paymentMethod"}
       /\ \A k \in (DOMAIN stored[i]) \ {"paymentMethod"} :
            loaded[i][k] = stored[i][k]
       /\ loaded[i].paymentMethod =
            IF LacksMethod(stored[i]) THEN CASH ELSE stored[i].paymentMethod

\* C20: when the page is loaded, the transactions are the stored records in
\* the stored order, with the payment method CASH for the records that have
\* none and every other field, and every payment method there is, as stored;
\* a stored text that does not parse gives an empty list.
C20_LoadMigration ==
  [][isAccountantMode' # isAccountantMode =>
       IF localStorage.transactions.kind = "json"
       THEN LoadedFrom(transactions', localStorage.transactions.value)
       ELSE transactions' = <<>>]_vars

\* The records of the older version were loaded and written again: the first
\* has the payment method CASH, the second is still a BANK transaction.
C20_Witness ==
  /\ Len(transactions) >= 2
  /\ \E i \in 1..(Len(transactions) - 1) :
       /\ transactions[i].id = <<"3", "1">>
       /\ transactions[i].paymentMethod = CASH
       /\ transactions[i + 1].id = <<"3", "2">>
       /\ transactions[i + 1].paymentMethod = BANK
  /\ localStorage.transactions = JSONstringify(transactions)

\* ------------------------------------------------------ persistence claims
StoredCurrent ==
  localStorage = [transactions |-> JSONstringify(transactions),
                  debts |-> JSONstringify(debts)]

\* C21: after every step that changes a collection the two stored items hold
\* the whole current collections, and a reload of the page gives back the collections that were
\* in memory, so cashBalance, bankBalance, totalBalance and totalUnpaidDebts
\* are the same before and after the reload.
C21_PersistenceRoundTrip ==
  [][/\ (transactions' # transactions \/ debts' # debts) => StoredCurrent'
     /\ (isAccountantMode' # isAccountantMode /\ StoredCurrent) =>
          /\ transactions' = transactions
          /\ debts' = debts
          /\ cashBalance' = cashBalance
          /\ bankBalance' = bankBalance
          /\ totalBalance' = totalBalance
          /\ totalUnpaidDebts' = totalUnpaidDebts]_vars

\* ------------------------------------------------------------------ dates
msPerHour == 3600000
msPerDay == 24 * msPerHour

\* The day number (days after 1970-01-01) of day d of month m of year y in the
\* proleptic Gregorian calendar; d may lie outside the month, as the argument
\* of setDate may (MakeDay of the Date object).
MakeDay(y, m, d) ==
  LET yy == IF m <= 2 THEN y - 1 ELSE y
      era == yy \div 400
      yoe == yy - era * 400
      mp == IF m > 2 THEN m - 3 ELSE m + 9
      doy == (153 * mp + 2) \div 5
      doe == yoe * 365 + (yoe \div 4) - (yoe \div 100) + doy
  IN (era * 146097 + doe - 719468) + (d - 1)

\* Year, month and day of the month of a day number.
YearMonthDate(day) ==
  LET z == day + 719468
      era == z \div 146097
      doe == z - era * 146097
      yoe == (doe - (doe \div 1460) + (doe \div 36524) - (doe \div 146096)) \div 365
      doy == doe - (365 * yoe + (yoe \div 4) - (yoe \div 100))
      mp == (5 * doy + 2) \div 153
      m == IF mp < 10 THEN mp + 3 ELSE mp - 9
  IN [year |-> (yoe + era * 400) + (IF m <= 2 THEN 1 ELSE 0),
      month |-> m,
      date |-> doy - ((153 * mp + 2) \div 5) + 1]

\* A Date object: a time value, held as the day number and the ms of the day
\* of UTC, or the Invalid Date.
InvalidDate == [valid |-> FALSE, day |-> 0, ms |-> 0]
DateAt(day, ms) ==
  [valid |-> TRUE, day |-> day + (ms \div msPerDay), ms |-> ms % msPerDay]

AllDigits(s) == \A i \in 1..Len(s) : IsDigit(s[i])

\* The fields of the text 'YYYY-MM-DD', or nothing when it has another form.
DateFields(s) ==
  IF /\ Len(s) = 10
     /\ s[5] = "-" /\ s[8] = "-"
     /\ AllDigits(SubSeq(s, 1, 4) \o SubSeq(s, 6, 7) \o SubSeq(s, 9, 10))
     /\ DigitsToNat(SubSeq(s, 6, 7)) \in 1..12
     /\ DigitsToNat(SubSeq(s, 9, 10)) \in 1..31
  THEN Some([year |-> DigitsToNat(SubSeq(s, 1, 4)),
             month |-> DigitsToNat(SubSeq(s, 6, 7)),
             date |-> DigitsToNat(SubSeq(s, 9, 10))])
  ELSE None

\* The ms after midnight of the text 'HH:MM:SS' or 'HH:MM:SS.mmm'.
TimeFields(s) ==
  IF /\ Len(s) \in {8, 12}
     /\ s[3] = ":" /\ s[6] = ":"
     /\ AllDigits(SubSeq(s, 1, 2) \o SubSeq(s, 4, 5) \o SubSeq(s, 7, 8))
     /\ DigitsToNat(SubSeq(s, 1, 2)) < 24
     /\ DigitsToNat(SubSeq(s, 4, 5)) < 60
     /\ DigitsToNat(SubSeq(s, 7, 8)) < 60
     /\ Len(s) = 12 => (s[9] = "." /\ AllDigits(SubSeq(s, 10, 12)))
  THEN Some(DigitsToNat(SubSeq(s, 1, 2)) * msPerHour
              + DigitsToNat(SubSeq(s, 4, 5)) * 60000
              + DigitsToNat(SubSeq(s, 7, 8)) * 1000
              + (IF Len(s) = 12 THEN DigitsToNat(SubSeq(s, 10, 12)) ELSE 0))
  ELSE None

\* new Date(text) for the date-time format of the language: a text ending in
\* Z is a time of UTC, a text without a zone is a local time; every other
\* text gives the Invalid Date.
NewDate(str) ==
  LET utc == str # <<>> /\ str[Len(str)] = "Z"
      s == IF utc THEN SubSeq(str, 1, Len(str) - 1) ELSE str
      fields == DateFields(slice(s, 10))
      clock == TimeFields(SubSeq(s, 12, Len(s)))
  IN IF Len(s) > 11 /\ s[11] = "T" /\ fields # None /\ clock # None
     THEN DateAt(MakeDay(Get(fields).year, Get(fields).month, Get(fields).date),
                 Get(clock) - (IF utc THEN 0 ELSE timeZone * msPerHour))
     ELSE InvalidDate

\* The local day number and the local ms of the day of a Date, and the Date
\* of a local day and time of day.
LocalDay(d) == d.day + ((d.ms + timeZone * msPerHour) \div msPerDay)
LocalMs(d) == (d.ms + timeZone * msPerHour) % msPerDay
LocalTime(day, ms) == DateAt(day, ms - timeZone * msPerHour)

\* getDay: 0 is Sunday; 1970-01-01 was a Thursday.
getDay(d) == (LocalDay(d) + 4) % 7
getDate(d) == YearMonthDate(LocalDay(d)).date
getFullYear(d) == YearMonthDate(LocalDay(d)).year

\* d.setHours(0, 0, 0, 0)
setHoursZero(d) == LocalTime(LocalDay(d), 0)

\* d.setDate(n): day n of the month of d, at the local time of day of d
setDate(d, n) ==
  LET ymd == YearMonthDate(LocalDay(d))
  IN LocalTime(MakeDay(ymd.year, ymd.month, n), LocalMs(d))

Pad(n, width) ==
  LET ds == NatToString(n)
  IN [i \in 1..(width - Len(ds)) |-> "0"] \o ds

\* date.toLocaleDateString('en-CA'): the local date as YYYY-MM-DD
toLocaleDateStringCA(d) ==
  IF ~d.valid THEN <<"Invalid Date">>
  ELSE LET ymd == YearMonthDate(LocalDay(d))
       IN Pad(ymd.year, 4) \o <<"-">> \o Pad(ymd.month, 2) \o <<"-">>
            \o Pad(ymd.date, 2)

\* --------------------------------------------------------------- grouping
DAILY == <<"daily">>
WEEKLY == <<"weekly">>

\* Mutant of getStartOfWeek: a Sunday is not taken back to the Monday before.
getStartOfWeekSundayAhead(date) ==
  IF ~date.valid THEN InvalidDate
  ELSE LET d == setHoursZero(date)
           day == getDay(d)
           diff == getDate(d) - day + 1
       IN setDate(d, diff)

\* getStartOfWeek: local midnight of the Monday of the week of the date
getStartOfWeek(date) ==
  IF ~date.valid THEN InvalidDate
  ELSE LET d == setHoursZero(date)
           day == getDay(d)
           diff == getDate(d) - day + (IF day = 0 THEN 0 - 6 ELSE 1)
       IN setDate(d, diff)

\* The key of the bucket of a transaction
bucketKey(transaction) ==
  LET transactionDate == NewDate(transaction.date)
  IN IF groupingMode = DAILY
     THEN toLocaleDateStringCA(transactionDate)
     ELSE toLocaleDateStringCA(getStartOfWeek(transactionDate))

\* Mutant of pushInto: the bucket holds the last transaction of its key only.
pushIntoReplacing(acc, key, transaction) ==
  [k \in (DOMAIN acc) \cup {key} |-> IF k = key THEN <<transaction>> ELSE acc[k]]

\* if (!acc[key]) acc[key] = []; acc[key].push(transaction)
pushInto(acc, key, transaction) ==
  [k \in (DOMAIN acc) \cup {key} |->
     IF k = key
     THEN (IF key \in DOMAIN acc THEN acc[key] ELSE <<>>) \o <<transaction>>
     ELSE acc[k]]

\* txs.reduce((acc, transaction) => ..., acc)
RECURSIVE groupReduce(_, _)
groupReduce(txs, acc) ==
  IF txs = <<>> THEN acc
  ELSE groupReduce(Tail(txs), pushInto(acc, bucketKey(Head(txs)), Head(txs)))

\* The buckets of the list: a record from keys to transactions
groupedTransactions == groupReduce(filteredTransactions, <<>>)

\* onClick of the two grouping buttons
setGroupingMode ==
  /\ \E v \in {DAILY, WEEKLY} : groupingMode' = v
  /\ UNCHANGED <<transactions, debts, txForm, debtForm, activeAccountView,
                 txModal, debtModal, debtToSettle, isAccountantMode,
                 localStorage, reading, now, filterView, alerted, timeZone>>

\* The time-zone offsets of the hosts, in hours.
TimeZones == {0 - 5, 0, 2}

\* The first render on a host of one of the time zones.
InitGroup ==
  /\ transactions = <<>>
  /\ debts = <<>>
  /\ description = <<>>
  /\ amount = <<>>
  /\ type = INCOME
  /\ debtClientName = <<>>
  /\ debtDescription = <<>>
  /\ debtAmount = <<>>
  /\ debtNotes = <<>>
  /\ activeAccountView = CASH
  /\ isTransactionModalOpen = FALSE
  /\ transactionToDelete = None
  /\ isDebtModalOpen = FALSE
  /\ debtToDelete = None
  /\ debtToSettle = None
  /\ isAccountantMode = FALSE
  /\ localStorage = [transactions |-> JSONstringify(<<>>),
                      debts |-> JSONstringify(<<>>)]
  /\ reading = <<>>
  /\ now = 0
  /\ searchTerm = <<>>
  /\ filterType = ALL
  /\ startDate = <<>>
  /\ endDate = <<>>
  /\ activeView = <<"transactions">>
  /\ alerted = <<>>
  /\ groupingMode = DAILY
  /\ timeZone \in TimeZones

\* The ISO text of an instant of the days around the epoch.
Stamp(date, time) == date \o <<"T">> \o time \o <<".", "0", "0", "0", "Z">>
Day(y, m, d) == Pad(y, 4) \o <<"-">> \o Pad(m, 2) \o <<"-">> \o Pad(d, 2)
Clock(h, m) == Pad(h, 2) \o <<":">> \o Pad(m, 2) \o <<":", "0", "0">>
Row(id, date) == join(<<id, <<"w">>, <<"4">>, INCOME, CASH, date>>, ",")

\* Files with transactions of the weeks around the clock (Thursday
\* 1970-01-01): late on a Sunday, at the midnight that starts a Monday, at the
\* turn of a month and of a year, and in the leap week of 1972.
FileSundayNight ==
  join(<<HeaderRow,
         Row(<<"5", "1">>, Stamp(Day(1969, 12, 21), Clock(23, 30))),
         Row(<<"5", "2">>, Stamp(Day(1969, 12, 29), Clock(0, 0)))>>, "\n")
FileNewYear ==
  join(<<HeaderRow,
         Row(<<"5", "3">>, Stamp(Day(1970, 1, 4), Clock(23, 30)))>>, "\n")
FileMonthTurn ==
  join(<<HeaderRow,
         Row(<<"5", "4">>, Stamp(Day(1969, 11, 30), Clock(10, 0))),
         Row(<<"5", "5">>, Stamp(Day(1972, 3, 1), Clock(8, 0)))>>, "\n")
GroupFiles == {FileSundayNight, FileNewYear, FileMonthTurn}
GroupDates == {Day(1969, 12, 29)}

NextGroup ==
  \/ handleImport(GroupFiles)
  \/ readerOnload
  \/ setGroupingMode
  \/ setStartDate(GroupDates)
  \/ setEndDate(GroupDates)

SpecGroup == InitGroup /\ [][NextGroup]_vars

\* ---------------------------------------------------------- grouping claims
Buckets == groupedTransactions
BucketKeys == DOMAIN Buckets

\* The places of the buckets that hold the transaction t
PlacesOf(t) ==
  {place \in BucketKeys \X (1..Len(filteredTransactions)) :
     /\ place[2] <= Len(Buckets[place[1]])
     /\ Buckets[place[1]][place[2]] = t}

\* C22: in both grouping modes the buckets partition the grouped list: every
\* transaction of the list is in exactly one bucket, exactly once, no bucket
\* is empty, no bucket holds anything that is not in the list, and every
\* bucket keeps the order of the list.
C22_GroupingTotality ==
  /\ \A key \in BucketKeys :
       /\ Buckets[key] # <<>>
       /\ IsSubsequence(Buckets[key], filteredTransactions)
  /\ \A i \in 1..Len(filteredTransactions) :
       Cardinality(PlacesOf(filteredTransactions[i])) = 1

\* Three transactions are grouped by week into two buckets.
C22_Witness ==
  /\ groupingMode = WEEKLY
  /\ Len(filteredTransactions) = 3
  /\ Cardinality(BucketKeys) = 2

\* The local day number of the transaction, and the day number of the Monday
\* of its week: the day minus ((weekday - 1) mod 7), Sunday being weekday 7.
LocalDayOf(t) == LocalDay(NewDate(t.date))
MondayOf(day) == day - ((day + 3) % 7)

\* The day number written by a bucket key
KeyDay(key) ==
  LET fields == Get(DateFields(key))
  IN MakeDay(fields.year, fields.month, fields.date)

\* C23: in weekly mode the key of the bucket of a transaction is the local
\* date of the Monday of its week: it is a Monday, it is the day of the
\* transaction or one of the six days before it, and two transactions are in
\* the same bucket exactly when their days have the same Monday.
C23_WeekAnchoring ==
  groupingMode = WEEKLY =>
    /\ \A i \in 1..Len(filteredTransactions) :
         LET t == filteredTransactions[i]
             key == bucketKey(t)
         IN /\ DateFields(key) # None
            /\ (KeyDay(key) + 3) % 7 = 0
            /\ LocalDayOf(t) - KeyDay(key) \in 0..6
            /\ KeyDay(key) = MondayOf(LocalDayOf(t))
            /\ t \in SeqToSet(Buckets[key])
    /\ \A i, j \in 1..Len(filteredTransactions) :
         (bucketKey(filteredTransactions[i]) = bucketKey(filteredTransactions[j]))
           <=> (MondayOf(LocalDayOf(filteredTransactions[i]))
                  = MondayOf(LocalDayOf(filteredTransactions[j])))

\* A Sunday of January 1970 is in the bucket of the Monday of December 1969,
\* and the first of March of the leap year 1972 in that of 28 February.
C23_Witness ==
  /\ groupingMode = WEEKLY
  /\ Day(1969, 12, 29) \in BucketKeys
  /\ \E t \in SeqToSet(Buckets[Day(1969, 12, 29)]) : slice(t.date, 4) = Pad(1970, 4)
  /\ Day(1972, 2, 28) \in BucketKeys

\* ----------------------------------------------------------- week headers
ThisWeekLabel == <<"this week">>
LastWeekLabel == <<"last week">>
MonthNames == <<"January", "February", "March", "April", "May", "June", "July",
                "August", "September", "October", "November", "December">>

\* date.toLocaleDateString('ar-EG', formatOptions): day and month in words,
\* and the year when formatOptions.year is set
FormatLocalDay(day, withYear) ==
  LET ymd == YearMonthDate(day)
  IN NatToString(ymd.date) \o <<" ", MonthNames[ymd.month]>>
       \o (IF withYear THEN <<" ">> \o NatToString(ymd.year) ELSE <<>>)
toLocaleDateStringEG(d, withYear) ==
  IF d.valid THEN FormatLocalDay(LocalDay(d), withYear) ELSE <<"Invalid Date">>

\* The header of a week bucket (weekStart and weekEnd are the startDate and
\* the endDate of the function)
formatWeekHeader(dateString) ==
  LET weekStart ==
        NewDate(dateString \o <<"T", "0", "0", ":", "0", "0", ":", "0", "0">>)
      today == DateAt(0, now)
      startOfThisWeek == getStartOfWeek(today)
      weekEnd == IF weekStart.valid
                 THEN setDate(weekStart, getDate(weekStart) + 6)
                 ELSE InvalidDate
      withYear == weekStart.valid /\ getFullYear(weekStart) # getFullYear(today)
  IN IF weekStart.valid /\ weekStart = startOfThisWeek
     THEN ThisWeekLabel
     ELSE <<"week", " ">> \o toLocaleDateStringEG(weekStart, withYear)
            \o <<" ", "to", " ">> \o toLocaleDateStringEG(weekEnd, withYear)

\* The Monday of the week of the clock, as a local day number
ThisMonday == MondayOf(LocalDay(DateAt(0, now)))

\* C24: the header of a week bucket is "this week" when its Monday is the
\* Monday of the current week, "last week" when it is the Monday of the week
\* before, and otherwise the range from the Monday to the Sunday six days
\* later.
C24_WeekHeaderLabel ==
  groupingMode = WEEKLY =>
    \A key \in BucketKeys :
      LET monday == KeyDay(key)
          withYear == YearMonthDate(monday).year
                        # YearMonthDate(LocalDay(DateAt(0, now))).year
      IN formatWeekHeader(key) =
           IF monday = ThisMonday THEN ThisWeekLabel
           ELSE IF monday = ThisMonday - 7 THEN LastWeekLabel
           ELSE <<"week", " ">> \o FormatLocalDay(monday, withYear)
                  \o <<" ", "to", " ">> \o FormatLocalDay(monday + 6, withYear)

\* The local calendar day of the transaction, as the daily grouping writes it
LocalDateOf(t) == toLocaleDateStringCA(NewDate(t.date))

\* C28: in daily mode the date filter and the grouping use the same calendar
\* day: every bucket of the filtered list has a key within the date range,
\* and with startDate = endDate = D the filtered list holds exactly the
\* transactions (of the account, the search and the type) whose day is D.
C28_FilterDayIsBucketDay ==
  groupingMode = DAILY =>
    /\ \A key \in BucketKeys :
         /\ startDate # <<>> => ~LessThan(key, startDate)
         /\ endDate # <<>> => ~LessThan(endDate, key)
    /\ (startDate # <<>> /\ startDate = endDate) =>
         \A i \in 1..Len(transactions) :
           LET t == transactions[i]
           IN (/\ InActiveAccount(t)
               /\ SearchMatches(searchTerm, t.description)
               /\ (filterType = ALL \/ t.type = filterType)
               /\ LocalDateOf(t) = startDate)
                => t \in SeqToSet(filteredTransactions)

\* ------------------------------------------------------ overlapping imports
\* A debt that is stored when the page is opened.
OpenDebt ==
  [id |-> debtId(34), clientName |-> <<"c">>, description |-> <<"d">>,
   amount |-> 200, status |-> UNPAID, date |-> DateOn("2"), notes |-> None]

\* A page whose storage held the open debt when it was opened, with a
\* transaction typed into the form and the settle dialog of the debt open.
InitOverlap ==
  /\ localStorage = [transactions |-> JSONstringify(<<>>),
                     debts |-> JSONstringify(<<OpenDebt>>)]
  /\ transactions = loadTransactions(localStorage.transactions)
  /\ debts = loadDebts(localStorage.debts)
  /\ description = <<"a">>
  /\ amount = <<"2">>
  /\ type = INCOME
  /\ debtClientName = <<>>
  /\ debtDescription = <<>>
  /\ debtAmount = <<>>
  /\ debtNotes = <<>>
  /\ activeAccountView = CASH
  /\ isTransactionModalOpen = FALSE
  /\ transactionToDelete = None
  /\ isDebtModalOpen = FALSE
  /\ debtToDelete = None
  /\ debtToSettle = Some(OpenDebt)
  /\ isAccountantMode = FALSE
  /\ reading = <<>>
  /\ now = 0
  /\ searchTerm = <<>>
  /\ filterType = ALL
  /\ startDate = <<>>
  /\ endDate = <<>>
  /\ activeView = <<"transactions">>
  /\ alerted = <<>>
  /\ groupingMode = DAILY
  /\ timeZone = 0

\* The file that is chosen while reads are pending.
OverlapFiles == {FileDiary}

NextOverlap ==
  \/ handleImportUpTo(OverlapFiles, MaxOverlap)
  \/ readerOnload
  \/ handleTransactionSubmit
  \/ handleConfirmSettleDebt(BANK)
  \/ \E id \in TransactionIds : handleDeleteTransactionRequest(id)
  \/ handleConfirmTransactionDelete

SpecOverlap == InitOverlap /\ [][NextOverlap]_vars

\* ys ends with xs.
IsSuffix(xs, ys) ==
  /\ Len(xs) <= Len(ys)
  /\ SubSeq(ys, Len(ys) - Len(xs) + 1, Len(ys)) = xs

\* The ids of the valid rows of a text
ValidIds(text) ==
  {Column(DataRows(text)[j], 1) :
     j \in {i \in 1..Len(DataRows(text)) : ValidRow(DataRows(text)[i])}}

\* C25: the callback of a file read changes the store in one step, computed
\* from the store of that moment: the transactions the store holds then (with
\* every add, delete and settlement made since the file was chosen) stay as
\* they are behind the added ones, the debts stay, the step adds either
\* nothing or all rows of the file that are new, and the callback of a file
\* whose rows are all in the store (the second of two overlapping imports of
\* a file) changes nothing.
C25_ImportCallbackAtomic ==
  [][\A k \in 1..Len(reading) :
       Onload(k) =>
         /\ debts' = debts
         /\ IsSuffix(transactions, transactions')
         /\ Added \in {<<>>, NewRecords(DataRows(reading[k]), StoredIds)}
         /\ (HeaderExported(reading[k]) /\ ValidIds(reading[k]) \subseteq StoredIds)
              => transactions' = transactions]_vars

\* Two reads of the file were pending; since the first callback a row of the
\* file was deleted and the debt was settled; the second read is pending.
C25_Witness ==
  /\ Len(reading) = 1
  /\ alerted = ImportedAlert(2)
  /\ Len(transactions) = 2
  /\ transactions[1].description = SettleDescription(OpenDebt)
  /\ transactions[2].id = <<"2", "2">>

\* -------------------------------------------------------- interrupted writes
\* handleConfirmSettleDebt on a host that stops between the two persistence
\* effects: the effect of the transactions has written, the effect of the
\* debts has not, and the page is opened again from what is stored.
handleConfirmSettleDebtThenCrash(settleMethod) ==
  /\ debtToSettle # None
  /\ now < MaxClock
  /\ now' = now + 1
  /\ LET newTransaction ==
           [id |-> NatToString(now'),
            description |-> SettleDescription(Get(debtToSettle)),
            amount |-> Get(debtToSettle).amount,
            type |-> INCOME,
            date |-> toISOString(now'),
            paymentMethod |-> settleMethod]
     IN localStorage' =
          [transactions |-> JSONstringify(<<newTransaction>> \o transactions),
           debts |-> localStorage.debts]
  /\ transactions' = loadTransactions(localStorage'.transactions)
  /\ debts' = loadDebts(localStorage'.debts)
  /\ description' = <<>>
  /\ amount' = <<>>
  /\ type' = INCOME
  /\ debtClientName' = <<>>
  /\ debtDescription' = <<>>
  /\ debtAmount' = <<>>
  /\ debtNotes' = <<>>
  /\ activeAccountView' = CASH
  /\ isTransactionModalOpen' = FALSE
  /\ transactionToDelete' = None
  /\ isDebtModalOpen' = FALSE
  /\ debtToDelete' = None
  /\ debtToSettle' = None
  /\ reading' = <<>>
  /\ searchTerm' = <<>>
  /\ filterType' = ALL
  /\ startDate' = <<>>
  /\ endDate' = <<>>
  /\ activeView' = <<"transactions">>
  /\ alerted' = <<>>
  /\ groupingMode' = DAILY
  /\ UNCHANGED <<isAccountantMode, timeZone>>

NextCrash ==
  \/ setActiveView
  \/ \E id \in DebtIds : handleSettleDebtRequest(id)
  \/ \E settleMethod \in {CASH, BANK} : handleConfirmSettleDebt(settleMethod)
  \/ \E settleMethod \in {CASH, BANK} : handleConfirmSettleDebtThenCrash(settleMethod)
  \/ cancelSettleDebt

SpecCrash == InitOverlap /\ [][NextCrash]_vars

\* The stored item holds a settlement transaction of the debt d.
StoredSettlement(item, d) ==
  /\ item.kind = "json"
  /\ \E i \in 1..Len(item.value) :
       /\ item.value[i].description = SettleDescription(d)
       /\ item.value[i].type = INCOME
       /\ item.value[i].amount = d.amount

\* The stored item holds the debt of the id with the status.
StoredDebtStatus(item, id, status) ==
  /\ item.kind = "json"
  /\ \E i \in 1..Len(item.value) :
       item.value[i].id = id /\ item.value[i].status = status

\* The step writes a new settlement transaction of the debt of the dialog.
SettlementWritten ==
  /\ debtToSettle # None
  /\ localStorage'.transactions # localStorage.transactions
  /\ StoredSettlement(localStorage'.transactions, Get(debtToSettle))

\* C26: a settlement made on the debts tab writes the transactions and the
\* debts in two writes.  When the page goes on after the settlement, both
\* stored collections have it: the settlement transaction is stored and the
\* debt is stored as PAID.  When the host stops between the two writes, the
\* transaction is stored and the debt is stored as it was.
C26_TwoWrites ==
  [][(activeView = <<"debts">> /\ SettlementWritten) =>
       IF activeView' = <<"debts">>
       THEN /\ StoredCurrent'
            /\ ~StoredDebtStatus(localStorage'.debts, Get(debtToSettle).id, UNPAID)
       ELSE /\ localStorage'.debts = localStorage.debts
            /\ transactions' = loadTransactions(localStorage'.transactions)
            /\ debts' = loadDebts(localStorage.debts)]_vars

\* After a stop between the two writes: the settlement of the open debt is
\* stored, the stored debt is still UNPAID, and so are the two in the page
\* that was opened again.
C26_Witness ==
  /\ StoredSettlement(localStorage.transactions, OpenDebt)
  /\ StoredDebtStatus(localStorage.debts, OpenDebt.id, UNPAID)
  /\ Len(transactions) = 1
  /\ totalUnpaidDebts = OpenDebt.amount

\* ------------------------------------------------------------ bank report
\* filterByDate of the report lists, for the two dates of the report range
filterByDate(t, reportStartDate, reportEndDate) ==
  IF reportStartDate = <<>> /\ reportEndDate = <<>> THEN TRUE
  ELSE LET transactionDate == slice(t.date, 10)
       IN /\ ~(reportStartDate # <<>> /\ LessThan(transactionDate, reportStartDate))
          /\ ~(reportEndDate # <<>> /\ LessThan(reportEndDate, transactionDate))

\* new Date(a.date).getTime() - new Date(b.date).getTime() < 0; a comparison
\* with an Invalid Date gives NaN, which sort takes for 0.
EarlierThan(a, b) ==
  LET x == NewDate(a.date)
      y == NewDate(b.date)
  IN /\ x.valid /\ y.valid
     /\ (x.day < y.day \/ (x.day = y.day /\ x.ms < y.ms))

\* Array.prototype.sort with that comparison: stable, oldest first
RECURSIVE insertByDate(_, _)
insertByDate(t, sorted) ==
  IF sorted = <<>> THEN <<t>>
  ELSE IF EarlierThan(t, Head(sorted)) THEN <<t>> \o sorted
  ELSE <<Head(sorted)>> \o insertByDate(t, Tail(sorted))

RECURSIVE sortByDate(_)
sortByDate(txs) ==
  IF txs = <<>> THEN <<>>
  ELSE insertByDate(txs[Len(txs)], sortByDate(SubSeq(txs, 1, Len(txs) - 1)))

\* The list of the bank report
bankTransactions(reportStartDate, reportEndDate) ==
  sortByDate(SelectSeq(transactions,
                       LAMBDA t : /\ t.paymentMethod = BANK
                                  /\ filterByDate(t, reportStartDate, reportEndDate)))

\* total of PrintableReport
RECURSIVE reportTotal(_, _)
reportTotal(txs, isBankReport) ==
  IF txs = <<>> THEN 0
  ELSE LET t == txs[Len(txs)]
           sum == reportTotal(SubSeq(txs, 1, Len(txs) - 1), isBankReport)
       IN IF isBankReport
          THEN (IF t.type = INCOME THEN sum + t.amount ELSE sum - t.amount)
          ELSE sum + t.amount

\* The transactions the transactions tab lists for an account when no filter
\* is set
accountView(method) == SelectSeq(transactions, LAMBDA t : t.paymentMethod = method)

\* C27: every transaction is listed in exactly one of the two account views,
\* the signed sum of the CASH view is cashBalance, the signed sum of the BANK
\* view is bankBalance, and so is the net total of the bank report when no
\* report range is set.
C27_ViewsAgreeWithBalances ==
  /\ \A i \in 1..Len(transactions) :
       (transactions[i] \in SeqToSet(accountView(CASH)))
         # (transactions[i] \in SeqToSet(accountView(BANK)))
  /\ SignedSum(accountView(CASH), LAMBDA t : TRUE) = cashBalance
  /\ SignedSum(accountView(BANK), LAMBDA t : TRUE) = bankBalance
  /\ reportTotal(bankTransactions(<<>>, <<>>), TRUE) = bankBalance

\* ---------------------------------------------------------------- re-import
\* The list reader.onload makes of the list prev and the text of a file
importInto(prev, text) ==
  IF text = <<>> THEN prev
  ELSE LET result == ParseCSV(text)
       IN IF result.ok THEN MergeImported(prev, result.imported) ELSE prev

\* C29: the list a callback of a file read makes is that of importInto, and
\* the import of the same file into that list, right after, changes nothing:
\* no transaction is added, removed, duplicated or moved.
C29_ReimportIdempotent ==
  [][\A k \in 1..Len(reading) :
       Onload(k) =>
         /\ transactions' = importInto(transactions, reading[k])
         /\ importInto(transactions', reading[k]) = transactions']_vars

\* The file with rows to skip was imported into a store with a transaction
\* of the form; importing it again would add nothing.
C29_Witness ==
  /\ reading = <<>>
  /\ alerted = ImportedAlert(2)
  /\ Len(transactions) = 3
  /\ importInto(transactions, readAsText(FileMixed)) = transactions
  /\ importInto(<<>>, readAsText(FileMixed)) # <<>>

\* ------------------------------------------------- deleting a transaction
NextDelete ==
  \/ handleImport({FileEdited})
  \/ readerOnload
  \/ handleTransactionSubmit
  \/ handleConfirmSettleDebt(BANK)
  \/ \E id \in TransactionIds : handleDeleteTransactionRequest(id)
  \/ handleConfirmTransactionDelete
  \/ closeTransactionModal

SpecDelete == InitOverlap /\ [][NextDelete]_vars

\* The dialog of the transaction is closed by the step and the page is not
\* loaded again: by its cancel button when the id of the request stays, by
\* its confirm button when it is cleared.
DeleteCancelled ==
  /\ isTransactionModalOpen /\ ~isTransactionModalOpen'
  /\ transactionToDelete' = transactionToDelete
  /\ isAccountantMode' = isAccountantMode
DeleteConfirmed ==
  /\ isTransactionModalOpen /\ ~isTransactionModalOpen'
  /\ transactionToDelete # None /\ transactionToDelete' = None
  /\ isAccountantMode' = isAccountantMode

\* xs without its i-th element
RemoveAt(xs, i) == SubSeq(xs, 1, i - 1) \o SubSeq(xs, i + 1, Len(xs))

\* C30: cancelling a delete request leaves the transactions as they are;
\* confirming the request for the id X removes the one transaction with the
\* id X and nothing else, keeps the order of the others and leaves the debts
\* (a settled debt stays PAID); the dialog is opened by a request only, which
\* sets the id that the confirmation uses.
C30_DeleteConfirmedExact ==
  [][/\ DeleteCancelled => (transactions' = transactions /\ debts' = debts)
     /\ DeleteConfirmed =>
          LET X == Get(transactionToDelete)
          IN /\ debts' = debts
             /\ IF X \in TransactionIds
                THEN \E i \in 1..Len(transactions) :
                       /\ transactions[i].id = X
                       /\ transactions' = RemoveAt(transactions, i)
                ELSE transactions' = transactions
     /\ (~isTransactionModalOpen /\ isTransactionModalOpen') =>
          /\ transactionToDelete' # None
          /\ Get(transactionToDelete') \in TransactionIds
          /\ transactions' = transactions]_vars
====
